---- MODULE Spec2Model ----
(***************************************************************************)
(* A model of ivre/db/tiny.py: the TinyDB backend of IVRE.                 *)
(*                                                                         *)
(* Documents are TLA+ functions from field names to values (a missing      *)
(* field is a field outside the DOMAIN).  A TinyDB table is the sequence   *)
(* of its documents in storage order.  A Python value that may be None is  *)
(* a sequence of at most one element: <<>> is None, <<v>> is the value v.  *)
(***************************************************************************)
EXTENDS Integers, Sequences, FiniteSets, TLC

VARIABLES
    passive,    \* the "passive" table: documents in storage order
    passive_ids,  \* the doc_id of each document of the passive table
    passive_last, \* _last_id of the passive table object, and its handle
    ninfos,     \* how many times the getinfos callback has been invoked
    hist,       \* the calls that wrote the passive table so far, oldest first
    writers,    \* the insert_or_update calls running side by side: the
                \* arguments, the position and the record found of each
    nmap,       \* the "nmap" table: host records in storage order
    nmap_scans, \* the "nmap_scans" table: scan documents in storage order
    nuuid,      \* how many identifiers uuid1() has produced
    _db,        \* self._db of each backend object: None or its handle
    _db_scans,  \* self._db_scans of the nmap backend: None or its handle
    handles,    \* every TinyDB handle opened so far: its file and its state
    view,       \* the "view" table: host records in storage order
    result,     \* what the last get returned
    call        \* the last call made on the backend, with its outcome

passiveVars == <<passive, passive_ids, passive_last, ninfos, hist, writers>>
nmapVars == <<nmap, nmap_scans, nuuid, _db_scans>>
handleVars == <<_db, handles>>
getVars == <<view, result>>
vars == <<passive, passive_ids, passive_last, ninfos, hist, writers, nmap, nmap_scans, nuuid, _db, _db_scans,
          handles, view, result, call>>

----------------------------------------------------------------------------
(* Bounds of the model.                                                    *)

\* timestamps are the epochs 0..MaxTime
MaxTime == 2
\* number of insert_or_update calls in a behaviour of Spec
MaxOps == 2
\* number of calls that write the passive table in a behaviour of SpecStore
MaxStoreOps == 3
\* number of insert_or_update calls in a behaviour of SpecRepeat
MaxRepeat == 3
\* number of identifiers uuid1() hands out
MaxUuid == 2
\* number of host records the nmap table, or the view table, holds
MaxHosts == 3
\* number of TinyDB handles opened
MaxHandles == 4
\* number of host records in the view table of SpecGet
MaxDocs == 3
\* number of records in a table of SpecPort and of SpecProject
MaxPortDocs == 2
\* number of records in a table of SpecTop
MaxTopDocs == 3
\* the most host records in a view table that is paged through
MaxPageDocs == 2
\* the most records in a passive table whose addresses are ranked
MaxNetDocs == 2
\* the most records stored with an address in each table
MaxAddrDocs == 2
\* the most host records with CPE entries in a view table
MaxCpeDocs == 2

----------------------------------------------------------------------------
(* Python values.                                                          *)

None == <<>>
Some(v) == <<v>>

\* dict.get(key, default)
DictGet(d, key, default) == IF key \in DOMAIN d THEN d[key] ELSE default

\* a copy of d without the fields in keys (del d[k] / d.pop(k), k present or not)
Without(d, keys) == [k \in DOMAIN d \ keys |-> d[k]]

\* dict(d, **upd): d with the fields of upd added or overwritten
DictUpdate(d, upd) ==
    [k \in DOMAIN d \cup DOMAIN upd |-> IF k \in DOMAIN upd THEN upd[k] ELSE d[k]]

Min2(a, b) == IF a <= b THEN a ELSE b
Max2(a, b) == IF a >= b THEN a ELSE b

\* Python's "a or b" for an optional number a: b when a is None or 0
PyOr(a, b) == IF a = None \/ a[1] = 0 THEN b ELSE a[1]

\* a Python str used as an address, and a Python int too wide for a machine
\* word: a 128-bit value is the sequence of its 16 base-256 digits, the
\* most significant first
PyText(s) == [type |-> "str", text |-> s]
PyInt(digits) == [type |-> "int", digits |-> digits]

\* a <= b for two such ints
IntLe(a, b) ==
    \/ a.digits = b.digits
    \/ \E k \in 1..Len(a.digits) :
           /\ a.digits[k] < b.digits[k]
           /\ \A j \in 1..(k - 1) : a.digits[j] = b.digits[j]

----------------------------------------------------------------------------
(* TinyDB table operations used by the backend.                            *)

\* Query: the conjunction of (q.key == value) over the fields of cond
\* (a document lacking the field does not match)
Matches(doc, cond) == \A k \in DOMAIN cond : k \in DOMAIN doc /\ doc[k] = cond[k]

\* table.search(cond): the places in the table of the matching documents, in
\* storage order
Search(table, cond) ==
    SelectSeq([i \in 1..Len(table) |-> i], LAMBDA i : Matches(table[i], cond))

\* table.update(fields, cond) of upsert(): every matching document is updated
UpdateWhere(table, fields, cond) ==
    [i \in 1..Len(table) |->
        IF Matches(table[i], cond) THEN DictUpdate(table[i], fields) ELSE table[i]]

\* table.upsert(doc, cond): update the matching documents, insert if none
Upsert(table, doc, cond) ==
    IF Search(table, cond) # <<>> THEN UpdateWhere(table, doc, cond)
    ELSE Append(table, doc)

----------------------------------------------------------------------------
(* Queries built with tinydb's Query: a query is a tree of tests; a dotted  *)
(* path (q.a.b) is the sequence of its segments.                            *)

\* flt_empty = Query(): matches every document
flt_empty == [op |-> "true"]

\* the queries q.path == rhs, q.path != rhs, q.path > rhs, q.path.exists(),
\* q.path.one_of(items), q.path.any(cond), q.path.all(cond), l & r, l | r, ~q
QEq(path, rhs) == [op |-> "eq", path |-> path, rhs |-> rhs]
QNe(path, rhs) == [op |-> "ne", path |-> path, rhs |-> rhs]
QGt(path, rhs) == [op |-> "gt", path |-> path, rhs |-> rhs]
QGe(path, rhs) == [op |-> "ge", path |-> path, rhs |-> rhs]
QLe(path, rhs) == [op |-> "le", path |-> path, rhs |-> rhs]
QLt(path, rhs) == [op |-> "lt", path |-> path, rhs |-> rhs]
QExists(path) == [op |-> "exists", path |-> path]
QOneOf(path, items) == [op |-> "one_of", path |-> path, items |-> items]
QAny(path, cond) == [op |-> "any", path |-> path, cond |-> cond]
\* a faulty all: one element is enough
QAll_Mutant(path, cond) == [op |-> "any", path |-> path, cond |-> cond]
QAll(path, cond) == [op |-> "all", path |-> path, cond |-> cond]
QAnd(l, r) == [op |-> "and", l |-> l, r |-> r]
QOr(l, r) == [op |-> "or", l |-> l, r |-> r]
QNot(q) == [op |-> "not", q |-> q]
\* q.path alone: a Query that has no test yet
QPath(path) == [op |-> "path", path |-> path]

\* the value a query's path leads to in a document, None when a segment is
\* missing (tinydb turns the KeyError into "the test fails")
RECURSIVE Resolve(_, _)
Resolve(value, path) ==
    IF path = <<>> THEN Some(value)
    ELSE IF path[1] \in DOMAIN value THEN Resolve(value[path[1]], Tail(path))
    ELSE None

\* a query applied to a document (or to an element of an array, for the
\* condition of any/all)
RECURSIVE Test(_, _)
Test(q, value) ==
    CASE q.op = "true" -> TRUE
      [] q.op = "and" -> Test(q.l, value) /\ Test(q.r, value)
      [] q.op = "or" -> Test(q.l, value) \/ Test(q.r, value)
      [] q.op = "not" -> ~Test(q.q, value)
      [] OTHER ->
            LET at == Resolve(value, q.path)
            IN  /\ at # None
                /\ CASE q.op = "eq" -> at[1] = q.rhs
                     [] q.op = "ne" -> at[1] # q.rhs
                     [] q.op = "gt" -> at[1] > q.rhs
                     [] q.op = "ge" -> at[1] >= q.rhs
                     [] q.op = "le" -> at[1] <= q.rhs
                     [] q.op = "lt" -> at[1] < q.rhs
                     [] q.op = "ge128" -> IntLe(q.rhs, at[1])
                     [] q.op = "le128" -> IntLe(at[1], q.rhs)
                     [] q.op = "exists" -> TRUE
                     [] q.op = "one_of" -> at[1] \in q.items
                     [] q.op = "any" -> \E i \in 1..Len(at[1]) : Test(q.cond, at[1][i])
                     [] q.op = "all" -> \A i \in 1..Len(at[1]) : Test(q.cond, at[1][i])

\* a stored document as table.search hands it out: the dict and its doc_id
\* (its place in the table, unless documents were removed: see passive__get)
Document(val, doc_id) == [doc_id |-> doc_id, val |-> val]

\* db.search(flt): the matching documents, in storage order
db_search(table, flt) ==
    LET ids == SelectSeq([i \in 1..Len(table) |-> i], LAMBDA i : Test(flt, table[i]))
    IN  [n \in 1..Len(ids) |-> Document(table[ids[n]], ids[n])]

----------------------------------------------------------------------------
(* The address codec: text outside, a 128-bit integer inside.              *)

\* the dotted text of the four numbers of an IPv4 address
IpText(quad) ==
    ToString(quad[1]) \o "." \o ToString(quad[2]) \o "."
        \o ToString(quad[3]) \o "." \o ToString(quad[4])

\* the IPv4 addresses whose text the codec of this model can read
Quads == {<<0, 0, 0, 0>>, <<192, 0, 2, 1>>, <<192, 0, 3, 1>>, <<198, 51, 100, 7>>,
          <<255, 255, 255, 255>>}

\* utils.ip2bin(addr): the 16 bytes of the IPv4-mapped address of a dotted
\* text, ValueError for a text that is no address
ip2bin(addr) ==
    IF \E quad \in Quads : IpText(quad) = addr.text
    THEN [val |-> <<0, 0, 0, 0, 0, 0, 0, 0, 0, 0, 255, 255>>
                     \o (CHOOSE quad \in Quads : IpText(quad) = addr.text),
          raised |-> None]
    ELSE [val |-> <<>>, raised |-> Some("ValueError")]

\* ip2internal(addr): an int is returned as it is; the two 64-bit halves
\* of the bytes of a text are put together, (val1 << 64) + val2
ip2internal(addr) ==
    IF addr.type = "int" THEN [val |-> addr, raised |-> None]
    ELSE LET bin == ip2bin(addr)
         IN  IF bin.raised # None THEN [val |-> addr, raised |-> bin.raised]
             ELSE [val |-> PyInt(bin.val), raised |-> None]

\* utils.bin2ip(bytes) on the bytes of an IPv4-mapped address
bin2ip(bytes) == PyText(IpText(SubSeq(bytes, 13, 16)))

\* internal2ip(addr): the text of the bytes addr >> 64, addr & (2^64 - 1)
internal2ip(addr) == bin2ip(addr.digits)

\* `rec['addr'] = ip2internal(rec['addr'])` inside try / except (KeyError,
\* ValueError): pass: a record without addr, or with an addr that cannot
\* be decoded, is left as it is
AddrToInternal(rec) ==
    IF "addr" \notin DOMAIN rec THEN rec
    ELSE LET internal == ip2internal(rec["addr"])
         IN  IF internal.raised # None THEN rec
             ELSE DictUpdate(rec, [addr |-> internal.val])

\* searchrange(start, stop): (q.addr >= start) & (q.addr <= stop), the
\* comparisons being those of 128-bit ints
searchrange(start, stop) ==
    QAnd([op |-> "ge128", path |-> <<"addr">>, rhs |-> ip2internal(start).val],
         [op |-> "le128", path |-> <<"addr">>, rhs |-> ip2internal(stop).val])

\* DB.searchipv4(): the range of the IPv4-mapped addresses
searchipv4 == searchrange(PyText("0.0.0.0"), PyText("255.255.255.255"))

\* utils.int2ip(utils.ip2int(text) & utils.int2mask(maskval)): each of the
\* four bytes keeps the bits of it that are among the first maskval
MaskedText(addr, maskval) ==
    LET quad == CHOOSE q \in Quads : IpText(q) = addr.text
        kept(k) == Max2(0, Min2(8, maskval - 8 * (k - 1)))
    IN  IpText([k \in 1..4 |-> quad[k] - (quad[k] % (2 ^ (8 - kept(k))))])

----------------------------------------------------------------------------
(* Collection handles: TinyDB.db and TinyDB.invalidate_cache.              *)

\* the backend objects, named by their dbname
Instances == {"nmap", "view", "passive"}

\* TDB(path): a new open handle on the file, numbered in order of creation
Opened(hs, file) == Append(hs, [file |-> file, state |-> "open"])

\* handle.close()
Closed(hs, h) == [hs EXCEPT ![h].state = "closed"]

\* self._db after an access to self.db: set on the first access
DbAttr(inst) ==
    IF _db[inst] = None THEN [_db EXCEPT ![inst] = Some(Len(handles) + 1)] ELSE _db

\* the handles after an access to self.db
DbHandles(inst) ==
    IF _db[inst] = None THEN Opened(handles, inst) ELSE handles

\* the db property: returns self._db, opening it when the attribute is missing
db(inst) ==
    /\ _db' = DbAttr(inst)
    /\ handles' = DbHandles(inst)
    /\ call' = [op |-> "db", inst |-> inst, ret |-> _db'[inst], raised |-> ""]
    /\ UNCHANGED <<passiveVars, nmapVars, getVars>>

\* invalidate_cache(): close the handle if there is one, then del self._db
\* a faulty invalidate_cache: the handle is closed but self._db is kept
invalidate_cache_Mutant(inst) ==
    /\ IF _db[inst] # None
       THEN /\ handles' = Closed(handles, _db[inst][1])
            /\ _db' = _db
            /\ call' = [op |-> "invalidate_cache", inst |-> inst, ret |-> None,
                        raised |-> ""]
       ELSE /\ UNCHANGED handleVars
            /\ call' = [op |-> "invalidate_cache", inst |-> inst, ret |-> None,
                        raised |-> "AttributeError"]
    /\ UNCHANGED <<passiveVars, nmapVars, getVars>>
\* invalidate_cache as written
invalidate_cache(inst) ==
    /\ IF _db[inst] # None
       THEN /\ handles' = Closed(handles, _db[inst][1])
            /\ _db' = [_db EXCEPT ![inst] = None]
            /\ call' = [op |-> "invalidate_cache", inst |-> inst, ret |-> None,
                        raised |-> ""]
       ELSE \* close() is skipped, del self._db raises
            /\ UNCHANGED handleVars
            /\ call' = [op |-> "invalidate_cache", inst |-> inst, ret |-> None,
                        raised |-> "AttributeError"]
    /\ UNCHANGED <<passiveVars, nmapVars, getVars>>

\* self._db_scans after an access to self.db_scans, the handles being hs
DbScansAttr(hs) == IF _db_scans = None THEN Some(Len(hs) + 1) ELSE _db_scans

\* the handles after an access to self.db_scans, the handles being hs
DbScansHandles(hs) == IF _db_scans = None THEN Opened(hs, "nmap_scans") ELSE hs

\* the largest of the doc_ids of a table, 0 for an empty one
MaxId(ids) ==
    IF ids = <<>> THEN 0
    ELSE CHOOSE m \in {ids[i] : i \in 1..Len(ids)} : \A i \in 1..Len(ids) : ids[i] <= m

\* _last_id of the table object behind self.db of the passive backend:
\* the table object is made when its handle is opened, with the largest
\* doc_id then stored, and counts the documents it inserts from there
LastId ==
    IF passive_last.handle = DbAttr("passive")["passive"][1] THEN passive_last.id
    ELSE MaxId(passive_ids)

\* the doc_ids after a write that left the table as table2: a document put
\* at the end gets _last_id + 1
IdsAfter(table2) ==
    IF Len(table2) > Len(passive) THEN Append(passive_ids, LastId + 1) ELSE passive_ids

\* the table object after that write
LastAfter(table2) ==
    [handle |-> DbAttr("passive")["passive"][1],
     id |-> IF Len(table2) > Len(passive) THEN LastId + 1 ELSE LastId]

\* the places in the passive table of the documents whose doc_id is in ids
Places(ids) == {i \in 1..Len(passive_ids) : passive_ids[i] \in ids}

\* init(): self.db.purge_tables(), and for the nmap backend
\* self.db_scans.purge_tables() as well; the handles are opened when they
\* are not yet, and the table object of the handle is kept
init(inst) ==
    LET hs == DbHandles(inst)
    IN  /\ _db' = DbAttr(inst)
        /\ IF inst = "nmap"
           THEN /\ _db_scans' = DbScansAttr(hs)
                /\ handles' = DbScansHandles(hs)
                /\ nmap' = <<>>
                /\ nmap_scans' = <<>>
           ELSE /\ handles' = hs
                /\ UNCHANGED <<nmap, nmap_scans, _db_scans>>
        /\ IF inst = "passive"
           THEN /\ passive' = <<>>
                /\ passive_ids' = <<>>
                /\ passive_last' = LastAfter(<<>>)
           ELSE UNCHANGED <<passive, passive_ids, passive_last>>
        /\ view' = IF inst = "view" THEN <<>> ELSE view
        /\ call' = [op |-> "init", inst |-> inst, ret |-> None, raised |-> ""]
        /\ hist' = IF inst = "passive" THEN Append(hist, call') ELSE hist
        /\ UNCHANGED <<ninfos, writers, nuuid, result>>

----------------------------------------------------------------------------
(* The passive backend: TinyDBPassive.                                     *)

\* a faulty op_update: firstseen and lastseen are overwritten, not folded
op_update_Mutant(count, firstseen, lastseen, doc) ==
    LET d1 == DictUpdate(doc, [count |-> DictGet(doc, "count", 0) + count])
        d2 == IF firstseen # None
              THEN DictUpdate(d1, [firstseen |-> firstseen[1]])
              ELSE d1
    IN  IF lastseen # None
        THEN DictUpdate(d2, [lastseen |-> lastseen[1]])
        ELSE d2
\* op_update(count, firstseen, lastseen) applied to doc
op_update(count, firstseen, lastseen, doc) ==
    LET d1 == DictUpdate(doc, [count |-> DictGet(doc, "count", 0) + count])
        d2 == IF firstseen # None
              THEN DictUpdate(d1, [firstseen |->
                       Min2(DictGet(d1, "firstseen", firstseen[1]), firstseen[1])])
              ELSE d1
    IN  IF lastseen # None
        THEN DictUpdate(d2, [lastseen |->
                 Max2(DictGet(d2, "lastseen", lastseen[1]), lastseen[1])])
        ELSE d2

\* self.db.update(op_update(count, firstseen, lastseen), doc_ids=...), ids
\* being the places in the table of the documents named
Update(table, count, firstseen, lastseen, ids) ==
    [i \in 1..Len(table) |->
        IF i \in ids THEN op_update(count, firstseen, lastseen, table[i]) ELSE table[i]]

\* rec2internal(rec) for a record with numeric timestamps: the addr is
\* made internal, and "_id" is dropped only when the record carries
\* firstseen or lastseen
rec2internal(rec) ==
    IF "firstseen" \in DOMAIN rec \/ "lastseen" \in DOMAIN rec
    THEN Without(AddrToInternal(rec), {"_id"})
    ELSE AddrToInternal(rec)

\* get_one(cond, fields=[]): the place in the table of the first matching
\* document, or None
get_one(table, cond) ==
    LET found == Search(table, cond)
    IN  IF found = <<>> THEN None ELSE Some(found[1])

\* the info resolver handed to insert_or_update: a dict with an "infos" block
GetInfos(orig) == [infos |-> [domaintarget |-> orig["value"]]]

\* the document insert_or_update creates when nothing matches
NewDoc(timestamp, spec, orig, count, getinfos, lastseen) ==
    LET doc == DictUpdate(spec, [count |-> count, firstseen |-> timestamp,
                                 lastseen |-> PyOr(lastseen, timestamp)])
        orig2 == IF getinfos # None THEN DictUpdate(orig, GetInfos(orig)) ELSE orig
    IN  IF getinfos # None /\ "infos" \in DOMAIN orig2
        THEN DictUpdate(doc, [infos |-> orig2["infos"]])
        ELSE doc

\* a faulty match key: the infos block is left in
MatchKey_Mutant(spec) == Without(rec2internal(spec), {"count"})
\* the fields spec_cond is built from: the internal record without its
\* infos block and its count
MatchKey(spec) == Without(Without(rec2internal(spec), {"infos"}), {"count"})

\* a faulty variant: getinfos is called on a fold as well
CallsGetInfos_Mutant(current, getinfos) == getinfos # None
\* whether insert_or_update calls getinfos: only in the branch that creates
CallsGetInfos(current, getinfos) == current = None /\ getinfos # None

\* insert_or_update(timestamp, spec, getinfos=None, lastseen=None); a spec
\* of None returns at once
insert_or_update(timestamp, spec, getinfos, lastseen) ==
    LET orig == spec
        count == DictGet(Without(rec2internal(spec), {"infos"}), "count", 1)
        spec2 == MatchKey(spec)
        current == get_one(passive, spec2)
        table2 == IF current # None
                  THEN Update(passive, count, Some(timestamp),
                              Some(PyOr(lastseen, timestamp)), {current[1]})
                  ELSE Upsert(passive,
                              NewDoc(timestamp, spec2, orig, count, getinfos, lastseen),
                              spec2)
    IN  /\ IF spec = None
           THEN UNCHANGED <<passive, passive_ids, passive_last, ninfos, handleVars>>
           ELSE /\ passive' = table2
                /\ passive_ids' = IdsAfter(table2)
                /\ passive_last' = LastAfter(table2)
                /\ ninfos' = IF CallsGetInfos(current, getinfos)
                             THEN ninfos + 1 ELSE ninfos
                /\ _db' = DbAttr("passive")
                /\ handles' = DbHandles("passive")
        /\ call' = [op |-> "insert_or_update", timestamp |-> timestamp,
                    spec |-> spec, getinfos |-> getinfos, lastseen |-> lastseen]
        /\ hist' = Append(hist, call')
        /\ UNCHANGED <<nmapVars, getVars, writers>>

\* TinyDBPassive.insert(spec, getinfos=None): the internal form of the
\* record, with what the resolver adds when there is one, is inserted
passive_insert(spec, getinfos) ==
    LET full == IF getinfos # None THEN DictUpdate(spec, GetInfos(spec)) ELSE spec
        table2 == Append(passive, rec2internal(full))
    IN  /\ passive' = table2
        /\ passive_ids' = IdsAfter(table2)
        /\ passive_last' = LastAfter(table2)
        /\ ninfos' = IF getinfos # None THEN ninfos + 1 ELSE ninfos
        /\ _db' = DbAttr("passive")
        /\ handles' = DbHandles("passive")
        /\ call' = [op |-> "insert", spec |-> spec, getinfos |-> getinfos,
                    raised |-> ""]
        /\ UNCHANGED <<hist, writers, nmapVars, getVars>>

\* TinyDBPassive.remove(spec_or_id): [id |-> a doc_id] removes that document
\* (db.remove(doc_ids=[id]); a doc_id that is not stored is a KeyError of
\* the table and nothing is removed), [cond |-> a query] removes every
\* document the query matches (db.remove(cond=...))
passive_remove(spec_or_id) ==
    LET byid == "id" \in DOMAIN spec_or_id
        missing == byid /\ Places({spec_or_id["id"]}) = {}
        gone == IF byid THEN Places({spec_or_id["id"]})
                ELSE {i \in 1..Len(passive) : Test(spec_or_id["cond"], passive[i])}
        kept == SelectSeq([i \in 1..Len(passive) |-> i], LAMBDA i : i \notin gone)
    IN  /\ passive' = [n \in 1..Len(kept) |-> passive[kept[n]]]
        /\ passive_ids' = [n \in 1..Len(kept) |-> passive_ids[kept[n]]]
        /\ passive_last' = LastAfter(passive)
        /\ _db' = DbAttr("passive")
        /\ handles' = DbHandles("passive")
        /\ call' = [op |-> "passive_remove", spec_or_id |-> spec_or_id, ret |-> None,
                    raised |-> IF missing THEN "KeyError" ELSE ""]
        /\ hist' = Append(hist, call')
        /\ UNCHANGED <<ninfos, writers, nmapVars, getVars>>

\* the first step of an insert_or_update(timestamp, spec) that runs beside
\* another one: get_one(spec_cond, fields=[])
search_step(w) ==
    /\ writers[w].pc = "search"
    /\ writers' = [writers EXCEPT
                      ![w].pc = "write",
                      ![w].current = LET found == get_one(passive, MatchKey(writers[w].spec))
                                     IN  IF found = None THEN None
                                         ELSE Some(passive_ids[found[1]])]
    /\ _db' = DbAttr("passive")
    /\ handles' = DbHandles("passive")
    /\ call' = [op |-> "get_one", writer |-> w]
    /\ UNCHANGED <<passive, passive_ids, passive_last, ninfos, hist, nmapVars, getVars>>

\* its second step: db.update on the record found, or db.upsert when none
\* was found
write_step(w) ==
    LET me == writers[w]
        count == DictGet(Without(rec2internal(me.spec), {"infos"}), "count", 1)
        spec2 == MatchKey(me.spec)
        table2 == IF me.current # None
                  THEN Update(passive, count, Some(me.timestamp),
                              Some(PyOr(None, me.timestamp)), Places({me.current[1]}))
                  ELSE Upsert(passive,
                              NewDoc(me.timestamp, spec2, me.spec, count, None, None),
                              spec2)
    IN  /\ me.pc = "write"
        /\ passive' = table2
        /\ passive_ids' = IdsAfter(table2)
        /\ passive_last' = LastAfter(table2)
        /\ writers' = [writers EXCEPT ![w].pc = "done"]
        /\ call' = [op |-> IF me.current # None THEN "update" ELSE "upsert",
                    writer |-> w]
        /\ UNCHANGED <<ninfos, hist, handleVars, nmapVars, getVars>>

----------------------------------------------------------------------------
(* TinyDB.get: search, sort, skip, limit.                                  *)
(* A sort key is the sequence of the segments of its dotted path; a field  *)
(* that may hold None holds <<>> for None and <<v>> for the value v.       *)

\* the value the loop "f = (f or {}).get(sk)" ends with, d being a dict (or
\* the empty dict standing for a falsy value): None when a segment is missing
RECURSIVE SortValue(_, _)
SortValue(d, path) ==
    IF Len(path) = 1
    THEN DictGet(d, path[1], None)
    ELSE SortValue(DictGet(d, path[1], <<>>), Tail(path))

\* a faulty _cmp: None is higher than anything
RECURSIVE _cmp_Mutant(_, _, _)
_cmp_Mutant(v1, v2, sort) ==
    IF sort = <<>> THEN 0
    ELSE LET o == sort[1][2]
             f1 == SortValue(v1, sort[1][1])
             f2 == SortValue(v2, sort[1][1])
         IN  IF f1 = f2 THEN _cmp_Mutant(v1, v2, Tail(sort))
             ELSE IF f1 = None THEN o
             ELSE IF f2 = None THEN -o
             ELSE IF f1[1] < f2[1] THEN -o
             ELSE o
\* _cmp(v1, v2) of get, for the sort list sort: pairs <<path, direction>>
RECURSIVE _cmp(_, _, _)
_cmp(v1, v2, sort) ==
    IF sort = <<>> THEN 0
    ELSE LET o == sort[1][2]
             f1 == SortValue(v1, sort[1][1])
             f2 == SortValue(v2, sort[1][1])
         IN  IF f1 = f2 THEN _cmp(v1, v2, Tail(sort))
             ELSE IF f1 = None THEN -o
             ELSE IF f2 = None THEN o
             ELSE IF f1[1] < f2[1] THEN -o
             ELSE o

\* a faulty insertion: x goes before the elements it ties with
SortedInsert_Mutant(s, x, sort) ==
    LET before == {j \in 1..Len(s) : _cmp(x.val, s[j].val, sort) <= 0}
        at == IF before = {} THEN Len(s) + 1
              ELSE CHOOSE j \in before : \A m \in before : j <= m
    IN  SubSeq(s, 1, at - 1) \o <<x>> \o SubSeq(s, at, Len(s))
\* the document x put into the sorted sequence s, after the elements it does
\* not precede
SortedInsert(s, x, sort) ==
    LET before == {j \in 1..Len(s) : _cmp(x.val, s[j].val, sort) < 0}
        at == IF before = {} THEN Len(s) + 1
              ELSE CHOOSE j \in before : \A m \in before : j <= m
    IN  SubSeq(s, 1, at - 1) \o <<x>> \o SubSeq(s, at, Len(s))

\* sorted(result, key=cmp_to_key(_cmp)): a stable sort
RECURSIVE Sorted(_, _)
Sorted(seq, sort) ==
    IF seq = <<>> THEN <<>>
    ELSE SortedInsert(Sorted(SubSeq(seq, 1, Len(seq) - 1), sort), seq[Len(seq)], sort)

\* seq[skip:] and seq[:limit]; None leaves the sequence as it is
Skip(seq, skip) ==
    IF skip = None THEN seq ELSE SubSeq(seq, skip[1] + 1, Len(seq))
Limit(seq, limit) ==
    IF limit = None THEN seq ELSE SubSeq(seq, 1, Min2(limit[1], Len(seq)))

\* the array-valued paths of the host schema (DBActive.list_fields) that the
\* records of this model use
list_fields == {<<"categories">>, <<"ports">>, <<"ports", "scripts">>}

\* the paths of a tree of wanted fields that lie strictly below path
Below(tree, path) ==
    {p \in DOMAIN tree : Len(p) > Len(path) /\ SubSeq(p, 1, Len(path)) = path}

\* one turn of the loop building _fields: the nested dict is kept as a map
\* from the path of a node to "True" (a leaf) or "dict"; a node that is
\* already True cannot be descended into
AddField(tree, fld) ==
    LET n == Len(fld)
        leaves == {k \in 1..(n - 1) : /\ SubSeq(fld, 1, k) \in DOMAIN tree
                                      /\ tree[SubSeq(fld, 1, k)] = "True"}
        keep == (DOMAIN tree \ Below(tree, fld))
                    \cup {SubSeq(fld, 1, k) : k \in 1..n}
    IN  IF leaves = {}
        THEN [tree |-> [p \in keep |-> IF p = fld THEN "True"
                                       ELSE IF p \in DOMAIN tree THEN tree[p]
                                       ELSE "dict"],
              raised |-> None]
        ELSE IF (n - 1) \in leaves /\ Cardinality(leaves) = 1
        THEN [tree |-> tree, raised |-> Some("TypeError")]
        ELSE [tree |-> tree, raised |-> Some("AttributeError")]

\* _fields after the loop over fields, or the exception that ends the loop
RECURSIVE _fields(_, _)
_fields(tree, fields) ==
    IF fields = <<>> THEN [tree |-> tree, raised |-> None]
    ELSE LET step == AddField(tree, fields[1])
         IN  IF step.raised # None THEN step
             ELSE _fields(step.tree, Tail(fields))

\* _extractor(rec, wanted_fields, base) on a dict
RECURSIVE _extractor(_, _, _)
_extractor(rec, wanted_fields, base) ==
    LET flds == {fld \in DOMAIN rec : Append(base, fld) \in DOMAIN wanted_fields}
    IN  [fld \in flds |->
            LET fullfld == Append(base, fld)
            IN  IF wanted_fields[fullfld] = "True" THEN rec[fld]
                ELSE IF fullfld \in list_fields
                THEN [i \in 1..Len(rec[fld]) |-> _extractor(rec[fld][i], wanted_fields, fullfld)]
                ELSE _extractor(rec[fld], wanted_fields, fullfld)]

\* _extractor on a Document: the doc_id is kept, the fields are extracted
ExtractDocument(doc, wanted_fields) ==
    Document(_extractor(doc.val, wanted_fields, <<>>), doc.doc_id)

\* a faulty get: the limit is applied before the skip
get_Mutant(table, flt, fields, sort, limit, skip) ==
    LET found == db_search(table, flt)
        wanted == IF fields = None THEN [tree |-> <<>>, raised |-> None]
                  ELSE _fields(<<>>, fields[1])
        page == IF sort = <<>>
                THEN Skip(Limit(found, limit), skip)
                ELSE Skip(Limit(Sorted(found, sort), limit), skip)
    IN  IF wanted.raised # None THEN [ret |-> <<>>, raised |-> wanted.raised]
        ELSE IF fields = None THEN [ret |-> page, raised |-> None]
        ELSE [ret |-> [i \in 1..Len(page) |-> ExtractDocument(page[i], wanted.tree)],
              raised |-> None]
\* get(flt, fields, sort, limit, skip) on a table: the Documents it returns,
\* or the exception raised while _fields is built
get(table, flt, fields, sort, limit, skip) ==
    LET found == db_search(table, flt)
        wanted == IF fields = None THEN [tree |-> <<>>, raised |-> None]
                  ELSE _fields(<<>>, fields[1])
        page == IF sort = <<>>
                THEN Limit(Skip(found, skip), limit)
                ELSE Limit(Skip(Sorted(found, sort), skip), limit)
    IN  IF wanted.raised # None THEN [ret |-> <<>>, raised |-> wanted.raised]
        ELSE IF fields = None THEN [ret |-> page, raised |-> None]
        ELSE [ret |-> [i \in 1..Len(page) |-> ExtractDocument(page[i], wanted.tree)],
              raised |-> None]

\* utils.all2datetime on a numeric timestamp: the datetime of that epoch
all2datetime(t) == [datetime |-> t]

\* the body of the loop of TinyDBActive._get on a host without addr, without
\* state_reason_ip and without traces: starttime and endtime become datetimes
FixHost(host) ==
    [k \in DOMAIN host |->
        IF k \in {"starttime", "endtime"} THEN all2datetime(host[k]) ELSE host[k]]

\* TinyDBActive._get: what get yields, each host fixed
Values(docs) == [i \in 1..Len(docs) |-> FixHost(docs[i].val)]

\* TinyDBView.get(flt, fields=fields, sort=sort, limit=limit, skip=skip)
view_get(flt, fields, sort, limit, skip) ==
    LET got == get(view, flt, fields, sort, limit, skip)
    IN  /\ result' = Values(got.ret)
        /\ _db' = DbAttr("view")
        /\ handles' = DbHandles("view")
        /\ call' = [op |-> "get", flt |-> flt, fields |-> fields, sort |-> sort,
                    limit |-> limit, skip |-> skip, raised |-> got.raised]
        /\ UNCHANGED <<passiveVars, nmapVars, view>>

----------------------------------------------------------------------------
(* The nmap backend: TinyDBActive.store_host and TinyDBNmap.                *)

\* the character of an ASCII byte
Chr(b) == CASE b = 97 -> "a" [] b = 98 -> "b" [] b = 99 -> "c" [] OTHER -> "?"

\* bytes.decode(): the string of a sequence of bytes
RECURSIVE Decode(_)
Decode(bytes) == IF bytes = <<>> THEN "" ELSE Chr(Head(bytes)) \o Decode(Tail(bytes))

\* str(uuid1()): the n-th identifier generated
Uuid(n) == "uuid-" \o ToString(n)

\* a faulty lookup: the identifier is never found
ScanPresent_Mutant(table, id) == FALSE
\* self.db_scans.get(Query()._id == _id) is not None
ScanPresent(table, id) ==
    \E i \in 1..Len(table) : "_id" \in DOMAIN table[i] /\ table[i]["_id"] = id

\* a faulty lookup: no host record is ever found to list the scan
Referenced_Mutant(table, scanid) == FALSE
\* self.db.get(q.scanid.any([scanid])): some host record lists scanid
Referenced(table, scanid) ==
    \E i \in 1..Len(table) :
        /\ "scanid" \in DOMAIN table[i]
        /\ \E k \in 1..Len(table[i]["scanid"]) : table[i]["scanid"][k] = scanid

\* the db_scans property: returns self._db_scans, opening it when the
\* attribute is missing
db_scans ==
    /\ _db_scans' = DbScansAttr(handles)
    /\ handles' = DbScansHandles(handles)
    /\ call' = [op |-> "db_scans", ret |-> _db_scans', raised |-> ""]
    /\ UNCHANGED <<passiveVars, getVars, nmap, nmap_scans, nuuid, _db>>

\* getscan(scanid), scanid being [bytes |-> the bytes] or [str |-> the
\* text]: bytes are decoded, a str has no decode and is kept; the value is
\* the first scan document with that "_id", or None
getscan(scanid) ==
    LET id == IF "bytes" \in DOMAIN scanid THEN Decode(scanid["bytes"])
              ELSE scanid["str"]
        found == Search(nmap_scans, [_id |-> id])
    IN  IF found = <<>> THEN None ELSE Some(nmap_scans[found[1]])

\* is_scan_present(scanid): getscan(scanid) is not None
is_scan_present(scanid) == getscan(scanid) # None

\* a call of getscan or of is_scan_present: self.db_scans is read, and
\* opened when it was not, and nothing is written
scan_lookup(op, scanid, ret) ==
    /\ _db_scans' = DbScansAttr(handles)
    /\ handles' = DbScansHandles(handles)
    /\ call' = [op |-> op, scanid |-> scanid, ret |-> ret, raised |-> ""]
    /\ UNCHANGED <<passiveVars, getVars, nmap, nmap_scans, nuuid, _db>>

\* TinyDB.count(flt) of the view backend: self.db.count(flt)
view_count(flt) ==
    /\ _db' = DbAttr("view")
    /\ handles' = DbHandles("view")
    /\ call' = [op |-> "count", flt |-> flt, ret |-> Len(db_search(view, flt)),
                raised |-> ""]
    /\ UNCHANGED <<passiveVars, nmapVars, getVars>>

\* store_scan_doc(scan)
store_scan_doc(scan) ==
    LET id == Decode(scan["_id"])
        doc == DictUpdate(scan, [_id |-> id])
    IN  /\ _db_scans' = DbScansAttr(handles)
        /\ handles' = DbScansHandles(handles)
        /\ IF ScanPresent(nmap_scans, id)
           THEN /\ nmap_scans' = nmap_scans
                /\ call' = [op |-> "store_scan_doc", scan |-> scan, ret |-> None,
                            raised |-> "ValueError"]
           ELSE /\ nmap_scans' = Append(nmap_scans, doc)
                /\ call' = [op |-> "store_scan_doc", scan |-> scan, ret |-> Some(id),
                            raised |-> ""]
        /\ UNCHANGED <<passiveVars, getVars, nmap, nuuid, _db>>

\* the host as store_host inserts it: scanid decoded into a list, addr made
\* internal, and "_id" set to a new identifier when the host has none
StoredHost(host) ==
    LET h0 == IF "scanid" \in DOMAIN host
              THEN DictUpdate(host, [scanid |-> <<Decode(host["scanid"])>>])
              ELSE host
        h1 == AddrToInternal(h0)
    IN  IF "_id" \notin DOMAIN h1 THEN DictUpdate(h1, [_id |-> Uuid(nuuid + 1)]) ELSE h1

\* store_host(host) of the nmap or of the view backend, for a host with
\* numeric starttime and endtime and no ports or traces: the record is
\* inserted, and the identifier is returned only when it was generated
\* here (the local _id is unbound else)
store_host(inst, host) ==
    LET fresh == "_id" \notin DOMAIN host
        h2 == StoredHost(host)
    IN  /\ nmap' = IF inst = "nmap" THEN Append(nmap, h2) ELSE nmap
        /\ view' = IF inst = "view" THEN Append(view, h2) ELSE view
        /\ nuuid' = IF fresh THEN nuuid + 1 ELSE nuuid
        /\ _db' = DbAttr(inst)
        /\ handles' = DbHandles(inst)
        /\ call' = [op |-> "store_host", inst |-> inst, host |-> host,
                    ret |-> IF fresh THEN Some(h2["_id"]) ELSE None,
                    raised |-> IF fresh THEN "" ELSE "UnboundLocalError"]
        /\ UNCHANGED <<passiveVars, result, nmap_scans, _db_scans>>

\* TinyDB.remove(rec), the remove of the view backend: rec is [dict |-> a
\* record as returned by get] or [oid |-> a record id]; every record with
\* that "_id" is removed
view_remove(rec) ==
    LET oid == IF "dict" \in DOMAIN rec THEN rec["dict"]["_id"] ELSE rec["oid"]
    IN  /\ view' = SelectSeq(view, LAMBDA h : ~Matches(h, [_id |-> oid]))
        /\ _db' = DbAttr("view")
        /\ handles' = DbHandles("view")
        /\ call' = [op |-> "view_remove", rec |-> rec, ret |-> None, raised |-> ""]
        /\ UNCHANGED <<passiveVars, nmapVars, result>>

\* DBView.merge_host(host), which this file inherits: the first record of
\* the view with the address of the host, None when the host has no
\* address or no record has it
MergeTarget(host) ==
    LET h1 == AddrToInternal(host)
        found == IF "addr" \in DOMAIN h1 THEN Search(view, [addr |-> h1["addr"]])
                 ELSE <<>>
    IN  IF found = <<>> THEN None ELSE Some(found[1])

\* what merge_host stores in place of the record found: the fields of both,
\* those of the new host first, the earlier starttime, the later endtime
\* and no "_id"
merge_host_docs(rec, host) ==
    DictUpdate(Without(DictUpdate(rec, host), {"_id"}),
               [starttime |-> Min2(rec["starttime"], host["starttime"]),
                endtime |-> Max2(rec["endtime"], host["endtime"])])

\* store_or_merge_host(host): the nmap backend stores the host; the view
\* backend stores it unless merge_host found a record, which is then
\* replaced by the merged one (store_host of it, then remove of the old)
store_or_merge_host(inst, host) ==
    LET target == IF inst = "view" THEN MergeTarget(host) ELSE None
        merged == target # None
        stored == IF merged THEN merge_host_docs(view[target[1]], AddrToInternal(host))
                  ELSE host
        fresh == "_id" \notin DOMAIN stored
        h2 == StoredHost(stored)
    IN  /\ nmap' = IF inst = "nmap" THEN Append(nmap, h2) ELSE nmap
        /\ view' = IF inst # "view" THEN view
                   ELSE IF merged
                   THEN SelectSeq(Append(view, h2),
                                  LAMBDA h : ~Matches(h, [_id |-> view[target[1]]["_id"]]))
                   ELSE Append(view, h2)
        /\ nuuid' = IF fresh THEN nuuid + 1 ELSE nuuid
        /\ _db' = DbAttr(inst)
        /\ handles' = DbHandles(inst)
        /\ call' = [op |-> "store_or_merge_host", inst |-> inst, host |-> host,
                    ret |-> None,
                    raised |-> IF fresh THEN "" ELSE "UnboundLocalError"]
        /\ UNCHANGED <<passiveVars, result, nmap_scans, _db_scans>>

\* TinyDBNmap.remove(rec): rec is [dict |-> a record as returned by get] or
\* [oid |-> a record id]
remove(rec) ==
    LET isdict == "dict" \in DOMAIN rec
        oid == IF isdict THEN rec["dict"]["_id"] ELSE rec["oid"]
        found == Search(nmap, [_id |-> oid])
        scanids == IF isdict THEN DictGet(rec["dict"], "scanid", <<>>)
                   ELSE IF found = <<>> THEN <<>>
                   ELSE DictGet(nmap[found[1]], "scanid", <<>>)
        hosts == SelectSeq(nmap, LAMBDA h : ~Matches(h, [_id |-> oid]))
        orphans == {scanids[k] : k \in {n \in 1..Len(scanids) :
                                            ~Referenced(hosts, scanids[n])}}
        hs == DbHandles("nmap")
    IN  /\ nmap' = hosts
        /\ nmap_scans' = SelectSeq(nmap_scans, LAMBDA d : d["_id"] \notin orphans)
        /\ _db' = DbAttr("nmap")
        /\ _db_scans' = IF orphans = {} THEN _db_scans ELSE DbScansAttr(hs)
        /\ handles' = IF orphans = {} THEN hs ELSE DbScansHandles(hs)
        /\ call' = [op |-> "remove", rec |-> rec, ret |-> None, raised |-> ""]
        /\ UNCHANGED <<passiveVars, getVars, nuuid>>

----------------------------------------------------------------------------
(* Field values and field existence along a dotted path.                   *)

\* record.get(countfield, default): the dotted name is looked up as one key,
\* so only a name of a single segment can be found
DottedGet(record, countfield, default) ==
    IF Len(countfield) = 1 /\ countfield[1] \in DOMAIN record
    THEN record[countfield[1]]
    ELSE default

\* the concatenation of a sequence of sequences
RECURSIVE Flatten(_)
Flatten(seqs) ==
    IF seqs = <<>> THEN <<>> ELSE Head(seqs) \o Flatten(Tail(seqs))

\* _generate_field_values(record, field, base, countfield, countval): the
\* sequence of what the generator yields, a value or a pair <<value, count>>
RECURSIVE _generate_field_values(_, _, _, _, _)
_generate_field_values(record, field, base, countfield, countval) ==
    IF Len(field) = 1
    THEN IF field[1] \notin DOMAIN record THEN <<>>
         ELSE LET fullfield == Append(base, field[1])
                  vals == IF fullfield \in list_fields THEN record[field[1]]
                          ELSE <<record[field[1]]>>
              IN  IF countval # None
                  THEN [i \in 1..Len(vals) |-> <<vals[i], countval[1]>>]
                  ELSE IF countfield # None
                  THEN [i \in 1..Len(vals) |->
                            <<vals[i], DottedGet(record, countfield[1], 1)>>]
                  ELSE vals
    ELSE LET cur == field[1]
             inside == /\ countfield # None
                       /\ Len(countfield[1]) > 1
                       /\ countfield[1][1] = cur
             cf == IF inside THEN Some(Tail(countfield[1])) ELSE None
             cv == IF countfield # None /\ ~inside
                   THEN Some(DottedGet(record, countfield[1], 1))
                   ELSE countval
             newbase == Append(base, cur)
         IN  IF cur \notin DOMAIN record THEN <<>>
             ELSE IF newbase \in list_fields
             THEN Flatten([i \in 1..Len(record[cur]) |->
                      _generate_field_values(record[cur][i], Tail(field), newbase, cf, cv)])
             ELSE _generate_field_values(record[cur], Tail(field), newbase, cf, cv)

\* a faulty filter: only the first segment of the path is looked for
_search_field_exists_Mutant(field, base, baseq) == QExists(<<field[1]>>)
\* _search_field_exists(field, base, baseq): baseq is the path the query has
\* so far
RECURSIVE _search_field_exists(_, _, _)
_search_field_exists(field, base, baseq) ==
    IF Len(field) = 1 THEN QExists(Append(baseq, field[1]))
    ELSE LET fullfield == Append(base, field[1])
         IN  IF fullfield \in list_fields
             THEN QAny(Append(baseq, field[1]),
                       _search_field_exists(Tail(field), fullfield, <<>>))
             ELSE _search_field_exists(Tail(field), fullfield, Append(baseq, field[1]))

----------------------------------------------------------------------------
(* TinyDBPassive.get and the top values of both kinds of backend.          *)

\* internal2rec on a Document of the passive table (no addr, no certificate):
\* the timestamps become datetimes and the doc_id is added as "_id"
internal2rec(doc) ==
    LET rec == doc.val
        fixed == [k \in DOMAIN rec |->
                     IF k \in {"firstseen", "lastseen"} THEN all2datetime(rec[k])
                     ELSE IF k = "addr" THEN internal2ip(rec[k])
                     ELSE rec[k]]
    IN  DictUpdate(fixed, [_id |-> doc.doc_id])

\* TinyDBPassive._get: what get yields (get numbers the documents by their
\* place in the table; their doc_ids are put back), each record through
\* internal2rec
passive__get(flt, fields, sort, limit, skip) ==
    LET got == get(passive, flt, fields, sort, limit, skip)
    IN  [ret |-> [i \in 1..Len(got.ret) |->
                     internal2rec([got.ret[i] EXCEPT !.doc_id = passive_ids[@]])],
         raised |-> got.raised]

\* TinyDBPassive.get(flt, fields=fields)
passive_get(flt, fields) ==
    LET got == passive__get(flt, fields, <<>>, None, None)
    IN  /\ result' = got.ret
        /\ _db' = DbAttr("passive")
        /\ handles' = DbHandles("passive")
        /\ call' = [op |-> "passive_get", flt |-> flt, fields |-> fields,
                    raised |-> got.raised]
        /\ UNCHANGED <<passiveVars, nmapVars, view>>

\* a faulty counter: a value not seen before goes in front of the others
CounterAdd_Mutant(res, val, count) ==
    IF \E i \in 1..Len(res) : res[i][1] = val
    THEN [i \in 1..Len(res) |->
             IF res[i][1] = val THEN <<val, res[i][2] + count>> ELSE res[i]]
    ELSE <<<<val, count>>>> \o res
\* res[val] += count on a Counter, kept as its items <<value, count>> in the
\* order the values were first added (the order a dict keeps)
CounterAdd(res, val, count) ==
    IF \E i \in 1..Len(res) : res[i][1] = val
    THEN [i \in 1..Len(res) |->
             IF res[i][1] = val THEN <<val, res[i][2] + count>> ELSE res[i]]
    ELSE Append(res, <<val, count>>)

\* the Counter after the items <<value, count>> of a stream are added
RECURSIVE Counter(_, _)
Counter(res, items) ==
    IF items = <<>> THEN res
    ELSE Counter(CounterAdd(res, items[1][1], items[1][2]), Tail(items))

\* an item put into a list ordered by decreasing count, after the items that
\* count as much
RankInsert(s, x) ==
    LET after == {j \in 1..Len(s) : s[j][2] < x[2]}
        at == IF after = {} THEN Len(s) + 1
              ELSE CHOOSE j \in after : \A m \in after : j <= m
    IN  SubSeq(s, 1, at - 1) \o <<x>> \o SubSeq(s, at, Len(s))

\* the items by decreasing count, equal counts in the order of the Counter
RECURSIVE Ranked(_)
Ranked(items) ==
    IF items = <<>> THEN <<>>
    ELSE RankInsert(Ranked(SubSeq(items, 1, Len(items) - 1)), items[Len(items)])

\* a faulty most_common: the whole ranking, whatever n
most_common_Mutant(items, n) == Ranked(items)
\* Counter.most_common(n), n a number
most_common(items, n) == SubSeq(Ranked(items), 1, Min2(n, Len(items)))

\* the list topvalues returns for the items of most_common
TopOutput(items) ==
    [i \in 1..Len(items) |-> [_id |-> items[i][1], count |-> items[i][2]]]

\* a stream of values as items counting 1 each: Counter(iterable)
Ones(vals) == [i \in 1..Len(vals) |-> <<vals[i], 1>>]

\* the pseudo-fields of the active topvalues that are another name of a field
ActiveField(field) ==
    IF field = <<"category">> THEN <<"categories">> ELSE field

\* _extractor of the pseudo-field "port": <<protocol, port>> of every port
\* that has a state
PortExtractor(recs) ==
    Flatten([i \in 1..Len(recs) |->
        LET ports == recs[i]["ports"]
            with == SelectSeq(ports, LAMBDA p : "state_state" \in DOMAIN p)
        IN  [j \in 1..Len(with) |-> <<DictGet(with[j], "protocol", "?"), with[j]["port"]>>]])

\* what _extractor(flt & _newflt(field), field) of the active topvalues yields
ActiveStream(table, field, flt) ==
    IF field = <<"port">>
    THEN LET newflt == QAny(<<"ports">>, QExists(<<"state_state">>))
             got == get(table, QAnd(flt, newflt),
                        Some(<<<<"ports", "port">>, <<"ports", "protocol">>,
                               <<"ports", "state_state">>>>), <<>>, None, None)
         IN  PortExtractor(Values(got.ret))
    ELSE LET fld == ActiveField(field)
             newflt == _search_field_exists(fld, <<>>, <<>>)
             got == get(table, QAnd(flt, newflt), Some(<<fld>>), <<>>, None, None)
         IN  Flatten([i \in 1..Len(got.ret) |->
                 _generate_field_values(Values(got.ret)[i], fld, <<>>, None, None)])

\* TinyDBView.topvalues(field, flt, topnbr)
view_topvalues(field, flt, topnbr) ==
    LET stream == Ones(ActiveStream(view, field, flt))
    IN  /\ result' = TopOutput(most_common(Counter(<<>>, stream), topnbr))
        /\ _db' = DbAttr("view")
        /\ handles' = DbHandles("view")
        /\ call' = [op |-> "topvalues", field |-> field, topnbr |-> topnbr,
                    stream |-> stream, raised |-> None]
        /\ UNCHANGED <<passiveVars, nmapVars, view>>

\* the four parts of a CPE entry, in the order of a CPE spec
CpeFields == <<"type", "vendor", "product", "version">>

\* the part a cpe pseudo-field ranks up to: what follows "cpe." when it is
\* the name of a part, fields[int(part) - 1] when it is a number (an index
\* of -1 is the last part), "version" otherwise and without "."
CpePart(part) ==
    IF part = None THEN "version"
    ELSE IF \E k \in 1..4 : CpeFields[k] = part[1] THEN part[1]
    ELSE CASE part[1] = "0" -> CpeFields[4]
           [] part[1] = "1" -> CpeFields[1]
           [] part[1] = "2" -> CpeFields[2]
           [] part[1] = "3" -> CpeFields[3]
           [] part[1] = "4" -> CpeFields[4]
           [] OTHER -> "version"

\* flt_and(*flts) of one filter or more
RECURSIVE flt_and(_)
flt_and(flts) ==
    IF Len(flts) = 1 THEN flts[1]
    ELSE QAnd(flt_and(SubSeq(flts, 1, Len(flts) - 1)), flts[Len(flts)])

\* searchcpe(cpe_type, vendor, product, version) for literal values, given
\* as the list of the values in that order (None for an argument not given)
searchcpe(values) ==
    LET given == SelectSeq([k \in 1..Len(values) |-> k], LAMBDA k : values[k] # None)
        flt == [n \in 1..Len(given) |-> QEq(<<CpeFields[given[n]]>>, values[given[n]][1])]
    IN  IF flt = <<>> THEN QExists(<<"cpes">>)
        ELSE QAny(<<"cpes">>, flt_and(flt))

\* what _extractor(flt & _newflt(field), field) yields for the pseudo-field
\* cpe[.part][:spec], spec being the literal values written after ":".
\* cpeflt is a zip object: _newflt, called first, goes through it, and the
\* extractor that runs afterwards finds it exhausted
CpeStream(table, part, spec, flt) ==
    LET field == CpePart(part)
        cpeflt == [k \in 1..Min2(4, Len(spec)) |-> <<CpeFields[k], spec[k]>>]
        newflt == searchcpe([k \in 1..Len(cpeflt) |-> Some(cpeflt[k][2])])
        left == SubSeq(cpeflt, Len(cpeflt) + 1, Len(cpeflt))
        got == get(table, QAnd(flt, newflt), Some(<<<<"cpes">>>>), <<>>, None, None)
        good(cpe) == \A k \in 1..Len(left) :
                         DictGet(cpe, left[k][1], "") = left[k][2]
        upto == CHOOSE k \in 1..4 : CpeFields[k] = field
    IN  Flatten([i \in 1..Len(got.ret) |->
            LET cpes == SelectSeq(Values(got.ret)[i]["cpes"], good)
            IN  [j \in 1..Len(cpes) |-> [k \in 1..upto |-> cpes[j][CpeFields[k]]]]])

\* TinyDBView.topvalues("cpe[.part][:spec]", flt, topnbr)
view_topvalues_cpe(part, spec, flt, topnbr) ==
    LET stream == Ones(CpeStream(view, part, spec, flt))
    IN  /\ result' = TopOutput(most_common(Counter(<<>>, stream), topnbr))
        /\ _db' = DbAttr("view")
        /\ handles' = DbHandles("view")
        /\ call' = [op |-> "topvalues", field |-> [part |-> part, spec |-> spec],
                    topnbr |-> topnbr, stream |-> stream, raised |-> None]
        /\ UNCHANGED <<passiveVars, nmapVars, view>>

\* what _extractor of the passive topvalues yields: values when distinct,
\* pairs <<value, count>> otherwise
PassiveStream(field, flt, distinct) ==
    LET countfield == IF distinct THEN None ELSE Some(<<"count">>)
        fields == IF distinct THEN <<field>> ELSE <<field, <<"count">>>>
        newflt == _search_field_exists(field, <<>>, <<>>)
        got == passive__get(QAnd(flt, newflt), Some(fields), <<>>, None, None)
    IN  Flatten([i \in 1..Len(got.ret) |->
            _generate_field_values(got.ret[i], field, <<>>, countfield, None)])

\* the pseudo-field "net" or "net:<bits>": its mask length, 24 when none is
\* written; None for another field
NetBits(field) ==
    CASE field = <<"net">> -> Some(24)
      [] field = <<"net:8">> -> Some(8)
      [] field = <<"net:16">> -> Some(16)
      [] field = <<"net:20">> -> Some(20)
      [] OTHER -> None

\* the _extractor of the pseudo-field "net": the records are fetched with
\* the list `fields` made before the field became "addr", and rec['addr']
\* is read from each; the first record without it ends the stream with a
\* KeyError
NetStream(field, flt, distinct) ==
    LET maskval == NetBits(field)[1]
        fields == IF distinct THEN <<field>> ELSE <<field, <<"count">>>>
        got == passive__get(QAnd(flt, searchipv4), Some(fields), <<>>, None, None)
        item(rec) == LET val == MaskedText(rec["addr"], maskval)
                                    \o "/" \o ToString(maskval)
                     IN  IF distinct THEN val ELSE <<val, DictGet(rec, "count", 1)>>
    IN  IF \E i \in 1..Len(got.ret) : "addr" \notin DOMAIN got.ret[i]
        THEN [items |-> <<>>, raised |-> Some("KeyError")]
        ELSE [items |-> [i \in 1..Len(got.ret) |-> item(got.ret[i])], raised |-> None]

\* TinyDBPassive.topvalues(field, flt, distinct, topnbr)
passive_topvalues(field, flt, distinct, topnbr) ==
    \E net \in {IF NetBits(field) # None THEN NetStream(field, flt, distinct)
                ELSE [items |-> PassiveStream(field, flt, distinct), raised |-> None]} :
      \E stream \in {IF distinct THEN Ones(net.items) ELSE net.items} :
        /\ result' = IF net.raised # None THEN <<>>
                     ELSE TopOutput(most_common(Counter(<<>>, stream), topnbr))
        /\ _db' = DbAttr("passive")
        /\ handles' = DbHandles("passive")
        /\ call' = [op |-> "passive_topvalues", field |-> field, topnbr |-> topnbr,
                    distinct |-> distinct, stream |-> stream, raised |-> net.raised]
        /\ UNCHANGED <<passiveVars, nmapVars, view>>

----------------------------------------------------------------------------
(* The port filters of the active backends.                                *)

\* the port argument: a number, or the string "host"
PortNumber(n) == [kind |-> "number", n |-> n]
PortHost == [kind |-> "host"]

\* a faulty searchport: the state is not looked at
searchport_Mutant(port, protocol, state, neg) ==
    IF port.kind = "host"
    THEN QAny(<<"ports">>, IF neg THEN QGt(<<"port">>, 0) ELSE QEq(<<"port">>, -1))
    ELSE LET res == QAnd(QEq(<<"port">>, port.n), QEq(<<"protocol">>, protocol))
         IN  IF neg THEN QAll(<<"ports">>, QNot(res)) ELSE QAny(<<"ports">>, res)
\* searchport(port, protocol, state, neg)
searchport(port, protocol, state, neg) ==
    IF port.kind = "host"
    THEN QAny(<<"ports">>, IF neg THEN QGt(<<"port">>, 0) ELSE QEq(<<"port">>, -1))
    ELSE LET res == QAnd(QEq(<<"port">>, port.n), QEq(<<"protocol">>, protocol))
         IN  IF neg
             THEN QOr(QAny(<<"ports">>, QAnd(res, QNe(<<"state_state">>, state))),
                      QAll(<<"ports">>, QNot(res)))
             ELSE QAny(<<"ports">>, QAnd(res, QEq(<<"state_state">>, state)))

\* TinyDBView.get(searchport(port, protocol, state, neg))
view_searchport(port, protocol, state, neg) ==
    LET got == get(view, searchport(port, protocol, state, neg), None, <<>>, None, None)
    IN  /\ result' = Values(got.ret)
        /\ _db' = DbAttr("view")
        /\ handles' = DbHandles("view")
        /\ call' = [op |-> "searchport", port |-> port, protocol |-> protocol,
                    state |-> state, neg |-> neg, raised |-> got.raised]
        /\ UNCHANGED <<passiveVars, nmapVars, view>>

\* the operands of Python's "a & b" in searchportsother: a string, or a Query
PyStr(s) == [type |-> "str", val |-> s]
PyQuery(q) == [type |-> "Query", val |-> q]

\* a & b: "&" binds tighter than "==", so it is applied to the operands next
\* to it; str has no __and__ and Query no __rand__, so a string on the left
\* is a TypeError
PyBitAnd(a, b) ==
    IF a.type = "Query" /\ b.type = "Query"
    THEN [val |-> PyQuery(QAnd(a.val, b.val)), raised |-> None]
    ELSE [val |-> a, raised |-> Some("TypeError")]

\* searchportsother(ports, protocol, state): the expression
\*   q.protocol == protocol & q.state_state == state & ~q.port.one_of(ports)
\* is the chain q.protocol == (protocol & q.state_state)
\*                         == (state & ~q.port.one_of(ports)),
\* whose operands are evaluated from left to right
searchportsother(ports, protocol, state) ==
    LET second == PyBitAnd(PyStr(protocol), PyQuery(QPath(<<"state_state">>)))
        third == PyBitAnd(PyStr(state), PyQuery(QNot(QOneOf(<<"port">>, ports))))
    IN  IF second.raised # None THEN [flt |-> None, raised |-> second.raised]
        ELSE [flt |-> None, raised |-> third.raised]

\* TinyDBView.get(searchportsother(ports, protocol, state)): the filter cannot
\* be built, so the get is never made
view_searchportsother(ports, protocol, state) ==
    LET built == searchportsother(ports, protocol, state)
    IN  /\ built.raised # None
        /\ result' = <<>>
        /\ call' = [op |-> "searchportsother", ports |-> ports, protocol |-> protocol,
                    state |-> state, raised |-> built.raised]
        /\ UNCHANGED <<passiveVars, nmapVars, handleVars, view>>

----------------------------------------------------------------------------
(* The predicate builders that check their arguments.  Each gives the      *)
(* filter built, or the exception raised instead; string arguments are     *)
(* literal values, for which _searchstring_re is q == value.               *)

\* a faulty searchcmp: an unknown operator is taken to be equality
searchcmp_Mutant(key, val, cmpop) ==
    CASE cmpop = "<" -> [flt |-> Some(QLt(<<key>>, val)), raised |-> None]
      [] cmpop = "<=" -> [flt |-> Some(QLe(<<key>>, val)), raised |-> None]
      [] cmpop = ">" -> [flt |-> Some(QGt(<<key>>, val)), raised |-> None]
      [] cmpop = ">=" -> [flt |-> Some(QGe(<<key>>, val)), raised |-> None]
      [] OTHER -> [flt |-> Some(QEq(<<key>>, val)), raised |-> None]
\* searchcmp(key, val, cmpop)
searchcmp(key, val, cmpop) ==
    CASE cmpop = "<" -> [flt |-> Some(QLt(<<key>>, val)), raised |-> None]
      [] cmpop = "<=" -> [flt |-> Some(QLe(<<key>>, val)), raised |-> None]
      [] cmpop = ">" -> [flt |-> Some(QGt(<<key>>, val)), raised |-> None]
      [] cmpop = ">=" -> [flt |-> Some(QGe(<<key>>, val)), raised |-> None]
      [] OTHER -> [flt |-> None, raised |-> Some("Exception")]

\* TinyDBPassive.searchport(port, protocol, state, neg)
passive_searchport(port, protocol, state, neg) ==
    IF protocol # "tcp" THEN [flt |-> None, raised |-> Some("ValueError")]
    ELSE IF state # "open" THEN [flt |-> None, raised |-> Some("ValueError")]
    ELSE IF neg THEN [flt |-> Some(QNe(<<"port">>, port)), raised |-> None]
    ELSE [flt |-> Some(QEq(<<"port">>, port)), raised |-> None]

\* the filters of a list of optional arguments that were given: pairs
\* <<path, argument>>, an argument being None or a value
Given(pairs) ==
    LET given == SelectSeq(pairs, LAMBDA pair : pair[2] # None)
    IN  [n \in 1..Len(given) |-> QEq(given[n][1], given[n][2][1])]

\* TinyDBPassive.searchservice(srv, port, protocol)
passive_searchservice(srv, port, protocol) ==
    LET flt == flt_and(<<QEq(<<"infos", "service_name">>, srv)>>
                           \o Given(<<<<<<"port">>, port>>>>))
    IN  IF protocol # None /\ protocol[1] # "tcp"
        THEN [flt |-> None, raised |-> Some("ValueError")]
        ELSE [flt |-> Some(flt), raised |-> None]

\* TinyDBPassive.searchproduct(product, version, service, port, protocol)
passive_searchproduct(product, version, service, port, protocol) ==
    LET flt == flt_and(<<QEq(<<"infos", "service_product">>, product)>>
                           \o Given(<<<<<<"infos", "service_version">>, version>>,
                                      <<<<"infos", "service_name">>, service>>,
                                      <<<<"port">>, port>>>>))
    IN  IF protocol # None /\ protocol[1] # "tcp"
        THEN [flt |-> None, raised |-> Some("ValueError")]
        ELSE [flt |-> Some(flt), raised |-> None]

\* TinyDBActive.searchscript(name, output, values, neg), values being None
\* or a string and the script having no alias and no list of its own
searchscript(name, output, values, neg) ==
    LET res == Given(<<<<<<"id">>, name>>, <<<<"output">>, output>>>>)
                   \o (IF values # None /\ name # None
                       THEN <<QEq(<<name[1]>>, values[1])>> ELSE <<>>)
        flt == IF res # <<>>
               THEN QAny(<<"ports">>, QAny(<<"scripts">>, flt_and(res)))
               ELSE QAny(<<"ports">>, QExists(<<"scripts">>))
    IN  IF values # None /\ name = None
        THEN [flt |-> None, raised |-> Some("TypeError")]
        ELSE [flt |-> Some(IF neg THEN QNot(flt) ELSE flt), raised |-> None]

\* a call of a builder: nothing but the arguments is looked at
Builds(op, args, built) ==
    /\ call' = [op |-> op, args |-> args, ret |-> built.flt, raised |-> built.raised]
    /\ UNCHANGED <<passiveVars, nmapVars, handleVars, getVars>>

----------------------------------------------------------------------------
(* The generator and the existence filter applied to the first record of   *)
(* the view.                                                               *)

\* list(_generate_field_values(record, field, countfield=countfield))
field_values(field, countfield) ==
    /\ result' = _generate_field_values(view[1], field, <<>>, countfield, None)
    /\ call' = [op |-> "_generate_field_values", field |-> field,
                countfield |-> countfield, raised |-> None]
    /\ UNCHANGED <<passiveVars, nmapVars, handleVars, view>>

\* TinyDBView.get(_search_field_exists(field))
field_exists(field) ==
    LET got == get(view, _search_field_exists(field, <<>>, <<>>), None, <<>>, None, None)
    IN  /\ result' = Values(got.ret)
        /\ _db' = DbAttr("view")
        /\ handles' = DbHandles("view")
        /\ call' = [op |-> "_search_field_exists", field |-> field, raised |-> got.raised]
        /\ UNCHANGED <<passiveVars, nmapVars, view>>

----------------------------------------------------------------------------
(* Inputs.                                                                 *)

Times == 0..MaxTime

\* the observation of the specification's scenario
Obs == [recontype |-> "DNS_ANSWER", source |-> "A", value |-> "example.com",
        sensor |-> "S"]

\* observations handed to insert_or_update: plain, with an incoming count and
\* an infos block of its own, and with the optional port field
Specs == {Obs,
          DictUpdate(Obs, [count |-> 2, infos |-> [domaintarget |-> "stale"]]),
          DictUpdate(Obs, [port |-> 53])}

OptTimes == {None} \cup {Some(t) : t \in Times}
Resolvers == {None, Some("getinfos")}

\* scan identifiers as given to the backend: the bytes b"a" and b"b"
ScanIdBytes == {<<97>>, <<98>>}

\* scan documents handed to store_scan_doc
Scans == {[_id |-> b, scanner |-> s] : b \in ScanIdBytes, s \in {"nmap", "masscan"}}

\* hosts handed to store_host: with or without a scan, new or carrying the
\* identifier of a record fetched earlier
BaseHost == [starttime |-> 1, endtime |-> 2]
Hosts ==
    LET withScan == {BaseHost} \cup {DictUpdate(BaseHost, [scanid |-> b]) : b \in ScanIdBytes}
    IN  withScan \cup {DictUpdate(h, [_id |-> Uuid(1)]) : h \in withScan}

\* the sort keys: "infos.as_num" and "openports.count"
KeyAs == <<"infos", "as_num">>
KeyCount == <<"openports", "count">>

\* sort lists: one key, or the two keys in either order, each ascending (1) or
\* descending (-1); the empty list is no sort
SortLists ==
    {<<>>}
        \cup {<<<<k, o>>>> : k \in {KeyAs, KeyCount}, o \in {1, -1}}
        \cup {<<<<KeyAs, o1>>, <<KeyCount, o2>>>> : o1, o2 \in {1, -1}}
        \cup {<<<<KeyCount, o1>>, <<KeyAs, o2>>>> : o1, o2 \in {1, -1}}

\* <<limit, skip>>: everything, or the two records after the first
Pages == {<<None, None>>, <<Some(2), Some(1)>>}

\* host records of the view: infos missing, with as_num None or a number;
\* openports missing or with a count of 0
HostShapes ==
    LET infos == {<<>>} \cup {[infos |-> [as_num |-> a]] : a \in {None, Some(1), Some(2)}}
        ports == {<<>>, [openports |-> [count |-> Some(0)]]}
    IN  {DictUpdate(i, p) : i \in infos, p \in ports}

\* view tables: up to MaxDocs host records, the n-th with _id n
ViewTables ==
    UNION {{[i \in 1..n |-> DictUpdate(t[i], [_id |-> i])] : t \in [1..n -> HostShapes]}
               : n \in 0..MaxDocs}

\* arguments of remove: a stored record, or a record id (stored or not)
RemoveArgs ==
    {[dict |-> nmap[i]] : i \in 1..Len(nmap)}
        \cup {[oid |-> Uuid(n)] : n \in 1..(MaxUuid + 1)}

----------------------------------------------------------------------------
(* Specifications.                                                         *)

InitRest ==
    /\ passive = <<>>
    /\ passive_ids = <<>>
    /\ passive_last = [handle |-> 0, id |-> 0]
    /\ ninfos = 0
    /\ hist = <<>>
    /\ writers = <<>>
    /\ nmap = <<>>
    /\ nmap_scans = <<>>
    /\ nuuid = 0
    /\ _db = [i \in Instances |-> None]
    /\ _db_scans = None
    /\ handles = <<>>
    /\ result = <<>>
    /\ call = [op |-> "__init__"]

\* the backend objects right after their construction over files that do not
\* exist yet: no handle is open and every table is empty
Init == InitRest /\ view = <<>>

\* a view table already holding host records
InitGet == InitRest /\ view \in ViewTables

\* any insert_or_update call
InsertOrUpdate ==
    /\ Len(hist) < MaxOps
    /\ \E t \in Times, s \in Specs \cup {None}, g \in Resolvers, l \in OptTimes :
           insert_or_update(t, s, g, l)

Next == InsertOrUpdate

Spec == Init /\ [][Next]_vars

\* the passive table written in every way: observations merged, records
\* removed, the table emptied
StoreInsertOrUpdate ==
    /\ Len(hist) < MaxStoreOps
    /\ \E s \in Specs, g \in Resolvers : insert_or_update(1, s, g, None)

\* remove with a doc_id, stored or not, with the query of the optional port
\* field, and with the empty query, which matches every record
PassiveRemove ==
    /\ Len(hist) < MaxStoreOps
    /\ \E spec_or_id \in {[id |-> n] : n \in 1..MaxStoreOps}
                             \cup {[cond |-> QEq(<<"port">>, 53)], [cond |-> flt_empty]} :
           passive_remove(spec_or_id)

\* init() of the passive backend
PassiveInit ==
    /\ Len(hist) < MaxStoreOps
    /\ init("passive")

NextStore == StoreInsertOrUpdate \/ PassiveRemove \/ PassiveInit

SpecStore == Init /\ [][NextStore]_vars

\* the same observation, count 1 each, merged again and again
InsertSame ==
    /\ Len(hist) < MaxRepeat
    /\ \E t \in Times, s \in {Obs, DictUpdate(Obs, [count |-> 1])}, g \in Resolvers :
           insert_or_update(t, s, g, None)

NextRepeat == InsertSame

SpecRepeat == Init /\ [][NextRepeat]_vars

\* get on a populated view, with and without sort, skip and limit
Get ==
    \E sort \in SortLists, page \in Pages :
        view_get(flt_empty, None, sort, page[1], page[2])

NextGet == Get

SpecGet == InitGet /\ [][NextGet]_vars

\* accesses to the handle of a backend object and invalidations of it
DbAccess ==
    \E inst \in Instances :
        /\ _db[inst] # None \/ Len(handles) < MaxHandles
        /\ db(inst)

InvalidateCache == \E inst \in Instances : invalidate_cache(inst)

\* an access to the handle of the scan collection
DbScans == db_scans

NextHandle == DbAccess \/ InvalidateCache \/ DbScans

SpecHandle == Init /\ [][NextHandle]_vars

\* the nmap backend: scans and hosts stored, hosts removed
StoreScanDoc == \E scan \in Scans : store_scan_doc(scan)

StoreHost ==
    \E host \in Hosts :
        /\ Len(nmap) < MaxHosts
        /\ "_id" \in DOMAIN host \/ nuuid < MaxUuid
        /\ store_host("nmap", host)

Remove == \E rec \in RemoveArgs : remove(rec)

\* store_or_merge_host of the nmap backend, which stores
NmapStoreOrMergeHost ==
    \E host \in {BaseHost, DictUpdate(BaseHost, [_id |-> Uuid(1)])} :
        /\ Len(nmap) < MaxHosts
        /\ "_id" \in DOMAIN host \/ nuuid < MaxUuid
        /\ store_or_merge_host("nmap", host)

\* init() of the nmap backend
NmapInit == init("nmap")

\* the scan collection read: lookups by the bytes b"a" and by the text "b"
GetScan ==
    \E scanid \in {[bytes |-> <<97>>], [str |-> "b"]} :
        scan_lookup("getscan", scanid, getscan(scanid))

IsScanPresent ==
    \E scanid \in {[bytes |-> <<97>>], [str |-> "b"]} :
        scan_lookup("is_scan_present", scanid, is_scan_present(scanid))

NextNmap == StoreScanDoc \/ StoreHost \/ Remove \/ NmapStoreOrMergeHost \/ NmapInit

SpecNmap == Init /\ [][NextNmap]_vars

\* the scan collection alone: documents stored and looked up, the
\* collection emptied
NextScan == StoreScanDoc \/ GetScan \/ IsScanPresent \/ NmapInit

SpecScan == Init /\ [][NextScan]_vars

\* the view backend: hosts stored, with or without an address and an
\* identifier of their own
ViewStoreHost ==
    \E host \in Hosts \cup {DictUpdate(BaseHost, [addr |-> PyText("192.0.2.1")])} :
        /\ Len(view) < MaxHosts
        /\ "_id" \in DOMAIN host \/ nuuid < MaxUuid
        /\ store_host("view", host)

\* a stored record, or a record id (stored or not), removed
ViewRemove ==
    \E rec \in {[dict |-> view[i]] : i \in 1..Len(view)}
                 \cup {[oid |-> Uuid(n)] : n \in 1..(MaxUuid + 1)} :
        view_remove(rec)

\* hosts stored or merged: without an address, with an identifier of their
\* own, and two sightings of one address
ViewStoreOrMergeHost ==
    \E host \in {BaseHost, DictUpdate(BaseHost, [_id |-> Uuid(1)]),
                 DictUpdate(BaseHost, [addr |-> PyText("192.0.2.1")]),
                 [starttime |-> 0, endtime |-> 3, addr |-> PyText("192.0.2.1")]} :
        /\ Len(view) < MaxHosts
        /\ "_id" \in DOMAIN host \/ nuuid < MaxUuid
        /\ store_or_merge_host("view", host)

\* init() of the view backend
ViewInit == init("view")

\* the records of the view counted: all of them, and those with an identifier
ViewCount ==
    \E flt \in {flt_empty, QEq(<<"_id">>, Uuid(1))} : view_count(flt)

NextView ==
    ViewStoreHost \/ ViewRemove \/ ViewStoreOrMergeHost \/ ViewInit \/ ViewCount

SpecView == Init /\ [][NextView]_vars

\* an entry of a ports array
PortEntry(protocol, port, state) ==
    [protocol |-> protocol, port |-> port, state_state |-> state]

\* the ports arrays of the host records: empty, the scenario's, one port in
\* one state or in two, another protocol, the host pseudo-port alone or
\* next to a real port
PortLists ==
    {<<>>,
     <<PortEntry("tcp", 80, "open"), PortEntry("tcp", 22, "closed")>>,
     <<PortEntry("tcp", 80, "open")>>,
     <<PortEntry("tcp", 80, "closed")>>,
     <<PortEntry("tcp", 80, "open"), PortEntry("tcp", 80, "closed")>>,
     <<PortEntry("udp", 80, "open")>>,
     <<[port |-> -1]>>,
     <<[port |-> -1], PortEntry("tcp", 80, "open")>>}

\* view tables of up to MaxPortDocs host records, each without ports array or
\* with one of the arrays above, the n-th with _id n
PortTables ==
    LET hosts == {BaseHost} \cup {DictUpdate(BaseHost, [ports |-> l]) : l \in PortLists}
    IN  UNION {{[i \in 1..n |-> DictUpdate(t[i], [_id |-> i])] : t \in [1..n -> hosts]}
                   : n \in 0..MaxPortDocs}

\* arguments of searchport and searchportsother
PortArgs == {PortNumber(n) : n \in {22, 80, 443}} \cup {PortHost}
Protocols == {"tcp", "udp"}
States == {"open", "closed"}
PortSets == {{}, {80}, {22, 80}}

\* a view table holding host records with ports
InitPort == InitRest /\ view \in PortTables

SearchPort ==
    \E port \in PortArgs, protocol \in Protocols, state \in States, neg \in BOOLEAN :
        view_searchport(port, protocol, state, neg)

SearchPortsOther ==
    \E ports \in PortSets, protocol \in Protocols, state \in States :
        view_searchportsother(ports, protocol, state)

NextPort == SearchPort \/ SearchPortsOther

SpecPort == InitPort /\ [][NextPort]_vars

\* host records for the generator, made of parts each of which may be
\* missing: count, openports, infos (empty or not), categories (empty or
\* not), and a ports array of up to two entries, with or without port, count
\* and scripts
FieldRecords ==
    LET counts == {<<>>, [count |-> 3]}
        openports == {<<>>, [openports |-> [count |-> 5]]}
        infos == {<<>>, [infos |-> <<>>], [infos |-> [as_num |-> 7]]}
        categories == {<<>>, [categories |-> <<>>], [categories |-> <<"a", "b">>]}
        entries == {[port |-> 80], [port |-> 80, count |-> 2], [count |-> 2],
                    [port |-> 22, count |-> 4,
                     scripts |-> <<[id |-> "x"], [output |-> "o"]>>]}
        ports == {<<>>} \cup {[ports |-> l] :
                                 l \in UNION {[1..n -> entries] : n \in 0..2}}
    IN  {DictUpdate(DictUpdate(DictUpdate(DictUpdate(c, o), i), g), p) :
            c \in counts, o \in openports, i \in infos, g \in categories, p \in ports}

\* the dotted paths asked for, and the count fields
FieldPaths ==
    {<<"count">>, <<"categories">>, <<"infos", "as_num">>, <<"openports", "count">>,
     <<"ports", "port">>, <<"ports", "scripts", "id">>}
CountFields ==
    {None, Some(<<"count">>), Some(<<"ports", "count">>), Some(<<"openports", "count">>)}

\* a view table holding one host record
InitField == InitRest /\ view \in {<<r>> : r \in FieldRecords}

FieldValues ==
    \E field \in FieldPaths, countfield \in CountFields : field_values(field, countfield)

FieldExists == \E field \in FieldPaths : field_exists(field)

NextField == FieldValues \/ FieldExists

SpecField == InitField /\ [][NextField]_vars

\* a record of the passive table, as insert_or_update leaves it
PassiveDoc(sensor, value, count) ==
    DictUpdate(Obs, [sensor |-> sensor, value |-> value, count |-> count,
                     firstseen |-> 0, lastseen |-> 1])

\* passive tables of up to max records, one per sensor
PassiveTables(max) ==
    UNION {[1..n -> {PassiveDoc("S", v, c) : v \in {"a.com", "b.com"}, c \in {1, 2}}]
               : n \in 0..max}

\* the state of a backend whose view and passive tables already hold records
InitStored(views, passives) ==
    /\ view \in views
    /\ passive \in {[i \in 1..Len(t) |-> DictUpdate(t[i], [sensor |-> Uuid(i)])]
                       : t \in passives}
    /\ passive_ids = [i \in 1..Len(passive) |-> i]
    /\ passive_last = [handle |-> 0, id |-> 0]
    /\ ninfos = 0
    /\ hist = <<>>
    /\ writers = <<>>
    /\ nmap = <<>>
    /\ nmap_scans = <<>>
    /\ nuuid = 0
    /\ _db = [i \in Instances |-> None]
    /\ _db_scans = None
    /\ handles = <<>>
    /\ result = <<>>
    /\ call = [op |-> "__init__"]

\* host records for the projection: with infos, with ports (one entry
\* carrying scripts), with an empty ports array, with neither
ProjHosts ==
    LET scripted == DictUpdate(PortEntry("tcp", 80, "open"),
                               [scripts |-> <<[id |-> "x", output |-> "o"]>>])
    IN  {BaseHost,
         DictUpdate(BaseHost, [ports |-> <<>>]),
         DictUpdate(BaseHost, [infos |-> [as_num |-> 7, country_code |-> "FR"]]),
         DictUpdate(BaseHost, [infos |-> [as_num |-> 7],
                               ports |-> <<scripted, [port |-> -1]>>])}

\* view tables of up to MaxPortDocs such records, the n-th with _id n
ProjTables ==
    UNION {{[i \in 1..n |-> DictUpdate(t[i], [_id |-> i])] : t \in [1..n -> ProjHosts]}
               : n \in 0..MaxPortDocs}

\* the fields asked of a get: up to two different paths, in either order
FieldLists(paths) ==
    {<<>>} \cup {<<p>> : p \in paths}
           \cup {pq \in paths \X paths : pq[1] # pq[2]}

InitProject ==
    \/ InitStored(ProjTables, {<<>>})
    \/ InitStored({<<>>}, PassiveTables(MaxPortDocs))

GetFields ==
    \E fields \in FieldLists({<<"starttime">>, <<"infos">>, <<"infos", "as_num">>,
                              <<"ports">>, <<"ports", "port">>, <<"ports", "scripts">>,
                              <<"ports", "scripts", "id">>}) :
        view_get(flt_empty, Some(fields), <<>>, None, None)

PassiveGetFields ==
    \E fields \in FieldLists({<<"value">>, <<"count">>, <<"firstseen">>, <<"sensor">>}) :
        passive_get(flt_empty, Some(fields))

NextProject == GetFields \/ PassiveGetFields

SpecProject == InitProject /\ [][NextProject]_vars

\* host records for the top values: categories in either order, ports with
\* and without a state, or neither
TopHosts ==
    {BaseHost} \cup {DictUpdate(BaseHost, [categories |-> c]) :
                        c \in {<<"a">>, <<"b">>, <<"b", "a">>}}
               \cup {DictUpdate(BaseHost, [ports |-> l]) :
                        l \in {<<PortEntry("tcp", 80, "open")>>,
                               <<[port |-> -1], PortEntry("tcp", 22, "closed"),
                                 PortEntry("tcp", 80, "open")>>}}

\* view tables of up to MaxTopDocs such records, the n-th with _id n
TopTables ==
    UNION {{[i \in 1..n |-> DictUpdate(t[i], [_id |-> i])] : t \in [1..n -> TopHosts]}
               : n \in 0..MaxTopDocs}

\* the values of topnbr
TopNbrs == 0..2

InitTop ==
    \/ InitStored(TopTables, {<<>>})
    \/ InitStored({<<>>}, PassiveTables(MaxTopDocs))

ViewTopvalues ==
    \E field \in {<<"category">>, <<"port">>, <<"ports", "port">>}, topnbr \in TopNbrs :
        view_topvalues(field, flt_empty, topnbr)

PassiveTopvalues ==
    \E field \in {<<"value">>, <<"sensor">>}, distinct \in BOOLEAN, topnbr \in TopNbrs :
        passive_topvalues(field, flt_empty, distinct, topnbr)

NextTop == ViewTopvalues \/ PassiveTopvalues

SpecTop == InitTop /\ [][NextTop]_vars

\* a view table of up to MaxPageDocs host records that are up or down and
\* have an AS number, the n-th with _id n
InitPage ==
    LET hosts == {DictUpdate(BaseHost, [state |-> h[1], infos |-> [as_num |-> Some(h[2])]])
                      : h \in {<<"up", 1>>, <<"up", 2>>, <<"down", 1>>}}
        tables == UNION {{[i \in 1..n |-> DictUpdate(t[i], [_id |-> i])]
                             : t \in [1..n -> hosts]} : n \in 0..MaxPageDocs}
    IN  InitStored(tables, {<<>>})

\* a get with or without filter, projection and sort, skip and limit being
\* None or 0 to 2
GetPage ==
    LET offsets == {None} \cup {Some(n) : n \in 0..2}
    IN  \E flt \in {flt_empty, QEq(<<"state">>, "up")},
           fields \in {None, Some(<<<<"_id">>, <<"infos", "as_num">>>>)},
           sort \in {<<>>, <<<<KeyAs, 1>>>>, <<<<KeyAs, -1>>>>},
           limit \in offsets, skip \in offsets :
            view_get(flt, fields, sort, limit, skip)

NextPage == GetPage

SpecPage == InitPage /\ [][NextPage]_vars

\* a view table of up to MaxCpeDocs hosts, each without CPE or with one or
\* two of three CPE entries
InitCpe ==
    LET cpe(t, v, p, n) == [type |-> t, vendor |-> v, product |-> p, version |-> n]
        httpd == cpe("a", "apache", "httpd", "2.4")
        nginx == cpe("a", "nginx", "nginx", "1.18")
        linux == cpe("o", "linux", "kernel", "5")
        hosts == {BaseHost} \cup {DictUpdate(BaseHost, [cpes |-> l]) :
                     l \in {<<httpd>>, <<nginx>>, <<httpd, nginx>>, <<linux, httpd>>}}
        tables == UNION {{[i \in 1..n |-> DictUpdate(t[i], [_id |-> i])]
                             : t \in [1..n -> hosts]} : n \in 0..MaxCpeDocs}
    IN  InitStored(tables, {<<>>})

\* the top values of cpe, cpe.<part>, cpe:<spec> and cpe.<part>:<spec>
ViewTopvaluesCpe ==
    \E part \in {None, Some("vendor"), Some("product"), Some("2"), Some("0")},
       spec \in {<<>>, <<"a">>, <<"o">>, <<"a", "apache">>,
                 <<"a", "apache", "httpd", "2.4">>},
       topnbr \in {1, 4} :
        view_topvalues_cpe(part, spec, flt_empty, topnbr)

NextCpe == ViewTopvaluesCpe

SpecCpe == InitCpe /\ [][NextCpe]_vars

\* tables that hold a host and up to one passive record
InitBuild ==
    InitStored({<<>>, <<DictUpdate(BaseHost, [_id |-> 1])>>}, PassiveTables(1))

SearchCmp ==
    \E key \in {"count", "port"}, val \in 0..2,
       cmpop \in {"<", "<=", ">", ">=", "==", "!="} :
        Builds("searchcmp", [key |-> key, val |-> val, cmpop |-> cmpop],
               searchcmp(key, val, cmpop))

PassiveSearchPort ==
    \E port \in {22, 80}, protocol \in Protocols, state \in States, neg \in BOOLEAN :
        Builds("passive_searchport",
               [port |-> port, protocol |-> protocol, state |-> state, neg |-> neg],
               passive_searchport(port, protocol, state, neg))

PassiveSearchService ==
    \E srv \in {"http", "ssh"}, port \in {None, Some(80)},
       protocol \in {None, Some("tcp"), Some("udp")} :
        Builds("searchservice", [srv |-> srv, port |-> port, protocol |-> protocol],
               passive_searchservice(srv, port, protocol))

PassiveSearchProduct ==
    \E version \in {None, Some("2.4")}, service \in {None, Some("http")},
       port \in {None, Some(80)}, protocol \in {None, Some("tcp"), Some("udp")} :
        Builds("searchproduct",
               [product |-> "httpd", version |-> version, service |-> service,
                port |-> port, protocol |-> protocol],
               passive_searchproduct("httpd", version, service, port, protocol))

SearchScript ==
    \E name \in {None, Some("x")}, output \in {None, Some("o")},
       values \in {None, Some("v")}, neg \in BOOLEAN :
        Builds("searchscript",
               [name |-> name, output |-> output, values |-> values, neg |-> neg],
               searchscript(name, output, values, neg))

NextBuild ==
    SearchCmp \/ PassiveSearchPort \/ PassiveSearchService \/ PassiveSearchProduct
        \/ SearchScript

SpecBuild == InitBuild /\ [][NextBuild]_vars

\* the addresses handed to the storing operations: a text that is an
\* address, a text that is none, and an address already internal
Addrs == {PyText("192.0.2.1"), PyText("bogus"), ip2internal(PyText("198.51.100.7")).val}

StoreHostAddr ==
    \E addr \in Addrs :
        /\ Len(nmap) < MaxAddrDocs
        /\ store_host("nmap", DictUpdate(BaseHost, [addr |-> addr]))

InsertAddr ==
    \E addr \in Addrs :
        /\ Len(passive) < MaxAddrDocs
        /\ passive_insert(DictUpdate(Obs, [addr |-> addr]), None)

InsertOrUpdateAddr ==
    \E addr \in Addrs :
        /\ Len(hist) < MaxAddrDocs
        /\ Len(passive) < MaxAddrDocs
        /\ insert_or_update(1, DictUpdate(Obs, [addr |-> addr]), None, None)

NextAddr == StoreHostAddr \/ InsertAddr \/ InsertOrUpdateAddr

SpecAddr == Init /\ [][NextAddr]_vars

\* a passive table of up to MaxNetDocs events, each with or without a count
\* and with or without the internal form of an IPv4 address
InitNet ==
    LET addrs == {ip2internal(PyText(IpText(quad))).val
                      : quad \in {<<192, 0, 2, 1>>, <<192, 0, 3, 1>>}}
        counted == {PassiveDoc("S", v, 2) : v \in {"a.com", "b.com"}}
        events == counted \cup {Without(d, {"count"}) : d \in counted}
        located == events \cup {DictUpdate(d, [addr |-> a]) : d \in events, a \in addrs}
    IN  InitStored({<<>>}, UNION {[1..n -> located] : n \in 0..MaxNetDocs})

\* the top values of a plain field, of the address, and of its networks
PassiveTopvaluesNet ==
    \E field \in {<<"value">>, <<"addr">>, <<"net">>, <<"net:16">>},
       distinct \in BOOLEAN, topnbr \in {1, 3} :
        passive_topvalues(field, flt_empty, distinct, topnbr)

NextNet == PassiveTopvaluesNet

SpecNet == InitNet /\ [][NextNet]_vars

\* two insert_or_update calls for the same key, with or without an incoming
\* count, about to run side by side on an empty passive table
InitRace ==
    /\ passive = <<>>
    /\ passive_ids = <<>>
    /\ passive_last = [handle |-> 0, id |-> 0]
    /\ ninfos = 0
    /\ hist = <<>>
    /\ writers \in [1..2 -> [pc : {"search"}, current : {None}, timestamp : Times,
                              spec : {Obs, DictUpdate(Obs, [count |-> 2])}]]
    /\ nmap = <<>>
    /\ nmap_scans = <<>>
    /\ nuuid = 0
    /\ _db = [i \in Instances |-> None]
    /\ _db_scans = None
    /\ handles = <<>>
    /\ view = <<>>
    /\ result = <<>>
    /\ call = [op |-> "__init__"]

WriterSearch == \E w \in DOMAIN writers : search_step(w)

WriterWrite == \E w \in DOMAIN writers : write_step(w)

NextRace == WriterSearch \/ WriterWrite

SpecRace == InitRace /\ [][NextRace]_vars

----------------------------------------------------------------------------
(* Properties of the passive merge.                                        *)

MinOf(S) == CHOOSE x \in S : \A y \in S : x <= y
MaxOf(S) == CHOOSE x \in S : \A y \in S : x >= y

\* the timestamps of the calls made so far
Stamps == {hist[i].timestamp : i \in 1..Len(hist)}

\* the uniqueness key of a stored record: every field but the merged ones
\* and the derived infos block
KeyOf(doc) == Without(doc, {"count", "firstseen", "lastseen", "infos"})

\* the count an observation carries (1 when it carries none)
IncomingCount(spec) == IF "count" \in DOMAIN spec THEN spec["count"] ELSE 1

\* the lastseen a call asks for: its lastseen argument if given, else its timestamp
AskedLastseen(c) == IF c.lastseen # None THEN c.lastseen[1] ELSE c.timestamp

\* the stored records an observation agrees with on each of its key fields
MatchingIds(table, spec) ==
    {i \in 1..Len(table) :
        \A k \in DOMAIN KeyOf(spec) : k \in DOMAIN table[i] /\ table[i][k] = spec[k]}

\* the step just taken is an insert_or_update call with an observation
IsMerge == hist' # hist /\ call'.op = "insert_or_update" /\ call'.spec # None

\* C1: under SpecRepeat (the same observation, count 1, merged N >= 1 times into
\* an empty collection, no lastseen argument) there is exactly one record, with
\* count = N, firstseen = the least and lastseen = the greatest timestamp.
C1_RepeatedMerge ==
    Len(hist) >= 1 =>
        /\ Len(passive) = 1
        /\ KeyOf(passive[1]) = Obs
        /\ passive[1]["count"] = Len(hist)
        /\ passive[1]["firstseen"] = MinOf(Stamps)
        /\ passive[1]["lastseen"] = MaxOf(Stamps)

\* the scenario's shape: three sightings, the second the earliest, the third
\* the latest
C1_Witness ==
    /\ Len(hist) = 3
    /\ hist[2].timestamp < hist[1].timestamp
    /\ hist[1].timestamp < hist[3].timestamp
    /\ Len(passive) = 1
    /\ passive[1]["count"] = 3

\* C2: every stored passive record has firstseen <= lastseen, whatever the
\* timestamps and lastseen arguments of the calls were.
C2_FirstseenBeforeLastseen ==
    \A i \in 1..Len(passive) : passive[i]["firstseen"] <= passive[i]["lastseen"]

\* C3: no two stored passive records share a key (they never agree on all the
\* fields other than count, firstseen, lastseen and the derived infos).
C3_UniqueKeys ==
    \A i, j \in 1..Len(passive) : KeyOf(passive[i]) = KeyOf(passive[j]) => i = j

\* a second sighting of a stored key was folded into its record
C3_Witness ==
    /\ Len(hist) >= 2
    /\ \A i \in 1..Len(hist) : hist[i].op = "insert_or_update"
    /\ \E i \in 1..Len(passive) : passive[i]["count"] >= 2

\* C4: a merge invokes the info resolver exactly when it creates a record (and
\* was given a resolver); a fold invokes nothing and leaves the infos block of
\* every stored record as it was.
C4_ResolverOnlyOnCreate ==
    [][IsMerge =>
        /\ (ninfos' = ninfos + 1) <=>
               (Len(passive') = Len(passive) + 1 /\ call'.getinfos # None)
        /\ ninfos' \in {ninfos, ninfos + 1}
        /\ Len(passive') = Len(passive) =>
               \A i \in 1..Len(passive) :
                   /\ ("infos" \in DOMAIN passive'[i]) <=> ("infos" \in DOMAIN passive[i])
                   /\ "infos" \in DOMAIN passive[i] =>
                          passive'[i]["infos"] = passive[i]["infos"]
      ]_vars

\* a sighting given a resolver was folded into a record created with one
C4_Witness ==
    /\ Len(hist) = 2
    /\ \A i \in 1..Len(hist) : hist[i].op = "insert_or_update"
    /\ hist[1].getinfos # None
    /\ hist[2].getinfos # None
    /\ Len(passive) = 1
    /\ passive[1]["count"] >= 2
    /\ ninfos = 1

\* C5: a merge that finds a matching record folds into it: count grows by the
\* incoming count, firstseen = min(firstseen, timestamp), lastseen =
\* max(lastseen, lastseen argument if given else timestamp); every other
\* field and every other record is unchanged.
C5_Fold ==
    [][(IsMerge /\ MatchingIds(passive, call'.spec) # {}) =>
        LET i == MinOf(MatchingIds(passive, call'.spec))
            c == call'
        IN  /\ Len(passive') = Len(passive)
            /\ \A j \in 1..Len(passive) : j # i => passive'[j] = passive[j]
            /\ passive'[i]["count"] = passive[i]["count"] + IncomingCount(c.spec)
            /\ passive'[i]["firstseen"] = Min2(passive[i]["firstseen"], c.timestamp)
            /\ passive'[i]["lastseen"] = Max2(passive[i]["lastseen"], AskedLastseen(c))
            /\ Without(passive'[i], {"count", "firstseen", "lastseen"})
                   = Without(passive[i], {"count", "firstseen", "lastseen"})
      ]_vars

\* C6: a merge that finds no matching record adds exactly one record, with the
\* incoming count, firstseen = timestamp and lastseen = the lastseen argument
\* whenever one is given (epoch 0 included), else the timestamp.
C6_Create ==
    [][(IsMerge /\ MatchingIds(passive, call'.spec) = {}) =>
        LET c == call'
            n == Len(passive')
        IN  /\ n = Len(passive) + 1
            /\ \A j \in 1..Len(passive) : passive'[j] = passive[j]
            /\ KeyOf(passive'[n]) = KeyOf(c.spec)
            /\ passive'[n]["count"] = IncomingCount(c.spec)
            /\ passive'[n]["firstseen"] = c.timestamp
            /\ passive'[n]["lastseen"] = AskedLastseen(c)
      ]_vars

----------------------------------------------------------------------------
(* Properties of the nmap backend.                                         *)

\* the scan identifiers a host record lists
ScanIdsOf(host) ==
    IF "scanid" \in DOMAIN host
    THEN {host["scanid"][k] : k \in 1..Len(host["scanid"])}
    ELSE {}

\* the documents of a table, as a set
Docs(table) == {table[i] : i \in 1..Len(table)}

\* C7: store_scan_doc with an identifier already in the scan collection raises
\* and leaves the collection as it was; with a new identifier it appends
\* exactly one document; so the identifiers of the collection stay unique.
C7_StoreScanDoc ==
    [][call'.op = "store_scan_doc" =>
        LET id == Decode(call'.scan["_id"])
            n == Len(nmap_scans)
            dup == \E i \in 1..n : nmap_scans[i]["_id"] = id
        IN  /\ dup => call'.raised = "ValueError" /\ nmap_scans' = nmap_scans
            /\ ~dup => /\ call'.raised = ""
                       /\ Len(nmap_scans') = n + 1
                       /\ SubSeq(nmap_scans', 1, n) = nmap_scans
                       /\ nmap_scans'[n + 1]["_id"] = id
            /\ \A i, j \in 1..Len(nmap_scans') :
                   nmap_scans'[i]["_id"] = nmap_scans'[j]["_id"] => i = j
      ]_vars

\* a scan document with a stored identifier and another payload was refused
C7_Witness ==
    /\ call.op = "store_scan_doc"
    /\ call.raised = "ValueError"
    /\ \E i \in 1..Len(nmap_scans) :
           /\ nmap_scans[i]["_id"] = Decode(call.scan["_id"])
           /\ nmap_scans[i]["scanner"] # call.scan["scanner"]

\* C8: after remove(host), by record or by id, no record with that id is left
\* and the other host records are untouched; a scan document is removed
\* exactly when the removed host lists its id and no remaining host does.
C8_RemoveCascade ==
    [][call'.op = "remove" =>
        LET rec == call'.rec
            oid == IF "dict" \in DOMAIN rec THEN rec["dict"]["_id"] ELSE rec["oid"]
            ids == {i \in 1..Len(nmap) : nmap[i]["_id"] = oid}
            refs == IF "dict" \in DOMAIN rec THEN ScanIdsOf(rec["dict"])
                    ELSE IF ids = {} THEN {}
                    ELSE ScanIdsOf(nmap[MinOf(ids)])
            StillListed(s) == \E h \in Docs(nmap') : s \in ScanIdsOf(h)
        IN  /\ \A h \in Docs(nmap') : h["_id"] # oid
            /\ nmap' = SelectSeq(nmap, LAMBDA h : h["_id"] # oid)
            /\ Docs(nmap_scans') \subseteq Docs(nmap_scans)
            /\ Len(nmap_scans') = Cardinality(Docs(nmap_scans'))
            /\ \A d \in Docs(nmap_scans) :
                   d \in Docs(nmap_scans') <=>
                       ~(d["_id"] \in refs /\ ~StillListed(d["_id"]))
      ]_vars

\* a host was removed whose scan another host still lists: the scan document
\* is still there
C8_Witness ==
    /\ call.op = "remove"
    /\ "dict" \in DOMAIN call.rec
    /\ \A h \in Docs(nmap) : h["_id"] # call.rec["dict"]["_id"]
    /\ \E s \in ScanIdsOf(call.rec["dict"]) :
           /\ \E d \in Docs(nmap_scans) : d["_id"] = s
           /\ \E h \in Docs(nmap) : s \in ScanIdsOf(h)

----------------------------------------------------------------------------
(* Properties of the collection handles.                                   *)

\* C9: the first access to db opens a handle, later accesses return that same
\* handle, invalidate_cache closes and discards it, and the access after an
\* invalidation opens a fresh handle; the handle returned is always open.
C9_HandleLifecycle ==
    [][/\ call'.op = "db" =>
            LET i == call'.inst
                r == call'.ret
            IN  /\ r # None
                /\ _db'[i] = r
                /\ handles'[r[1]].state = "open"
                /\ IF _db[i] # None
                   THEN r = _db[i] /\ handles' = handles
                   ELSE /\ r[1] \notin DOMAIN handles
                        /\ handles' = Append(handles, [file |-> i, state |-> "open"])
       /\ (call'.op = "invalidate_cache" /\ _db[call'.inst] # None) =>
            /\ _db'[call'.inst] = None
            /\ handles'[_db[call'.inst][1]].state = "closed"
            /\ call'.raised = ""
      ]_vars

\* an access after an invalidation: an earlier handle of the same backend is
\* closed and a later, open one was returned
C9_Witness ==
    /\ call.op = "db"
    /\ \E h \in DOMAIN handles :
           /\ h < call.ret[1]
           /\ handles[h] = [file |-> call.inst, state |-> "closed"]
    /\ handles[call.ret[1]].state = "open"

----------------------------------------------------------------------------
(* Properties of get.                                                      *)

\* the record has no value at the path: a segment is missing or the value is None
NullAt(rec, path) ==
    \/ path[1] \notin DOMAIN rec
    \/ path[2] \notin DOMAIN rec[path[1]]
    \/ rec[path[1]][path[2]] = None

\* the number at the path of a record that has one
NumAt(rec, path) == rec[path[1]][path[2]][1]

\* two records tie on the sort key
TieAt(a, b, path) ==
    \/ NullAt(a, path) /\ NullAt(b, path)
    \/ ~NullAt(a, path) /\ ~NullAt(b, path) /\ NumAt(a, path) = NumAt(b, path)

\* the sort keys that can decide between two records: those all of whose
\* predecessors in the sort list tie
Deciding(a, b, sort) ==
    {k \in 1..Len(sort) : \A m \in 1..(k - 1) : TieAt(a, b, sort[m][1])}

\* C10: for every sort key (reached when the keys before it tie), a record with
\* a missing or None value is ordered strictly before every record with a
\* value when the key is ascending, strictly after when it is descending:
\* by the comparator, and in the list get returns.
C10_NoneFirstAscending ==
    call.op = "get" =>
        /\ \A a, b \in Docs(view) : \A k \in Deciding(a, b, call.sort) :
               (NullAt(a, call.sort[k][1]) /\ ~NullAt(b, call.sort[k][1])) =>
                   /\ _cmp(a, b, call.sort) = -call.sort[k][2]
                   /\ _cmp(b, a, call.sort) = call.sort[k][2]
        /\ \A i, j \in 1..Len(result) : \A k \in Deciding(result[i], result[j], call.sort) :
               (/\ NullAt(result[i], call.sort[k][1])
                /\ ~NullAt(result[j], call.sort[k][1])) =>
                   IF call.sort[k][2] = 1 THEN i < j ELSE j < i

\* a two-key sort, ascending then descending: the record without as_num comes
\* first, and of the two records tied on as_num the one without a count last
C10_Witness ==
    /\ call.op = "get"
    /\ call.sort = <<<<KeyAs, 1>>, <<KeyCount, -1>>>>
    /\ Len(result) = 3
    /\ NullAt(result[1], KeyAs)
    /\ ~NullAt(result[2], KeyAs)
    /\ TieAt(result[2], result[3], KeyAs)
    /\ ~NullAt(result[2], KeyCount)
    /\ NullAt(result[3], KeyCount)

\* the sort keys on which two records differ
Differing(a, b, sort) == {k \in 1..Len(sort) : ~TieAt(a, b, sort[k][1])}

\* a comes strictly before b by one sort key and its direction, None lowest
Before(a, b, key) ==
    LET lower == \/ NullAt(a, key[1]) /\ ~NullAt(b, key[1])
                 \/ /\ ~NullAt(a, key[1]) /\ ~NullAt(b, key[1])
                    /\ NumAt(a, key[1]) < NumAt(b, key[1])
        higher == \/ NullAt(b, key[1]) /\ ~NullAt(a, key[1])
                  \/ /\ ~NullAt(a, key[1]) /\ ~NullAt(b, key[1])
                     /\ NumAt(a, key[1]) > NumAt(b, key[1])
    IN  IF key[2] = 1 THEN lower ELSE higher

\* C11: in the list a sorted get returns, of any two records the earlier is
\* the one the first sort key on which they differ puts first; two records
\* tied on every sort key keep the order of the search result (the storage
\* order, which the _id of the view's records counts).
C11_StableFirstKeyDecides ==
    (call.op = "get" /\ call.sort # <<>>) =>
        \A i, j \in 1..Len(result) : i < j =>
            LET d == Differing(result[i], result[j], call.sort)
            IN  IF d = {} THEN result[i]["_id"] < result[j]["_id"]
                ELSE Before(result[i], result[j], call.sort[MinOf(d)])

\* a two-key sort of three records: the first two tie on both keys and keep
\* their storage order, the third differs on the second key only
C11_Witness ==
    /\ call.op = "get"
    /\ Len(call.sort) = 2
    /\ Len(result) = 3
    /\ Differing(result[1], result[2], call.sort) = {}
    /\ result[1]["_id"] < result[2]["_id"]
    /\ Differing(result[2], result[3], call.sort) = {2}
    /\ result[3]["_id"] < result[1]["_id"]

----------------------------------------------------------------------------
(* Properties of the port filters.                                         *)

\* the entries of a record's ports array with the port number and protocol
EntriesAt(rec, port, protocol) ==
    {i \in 1..Len(rec["ports"]) :
        /\ rec["ports"][i]["port"] = port
        /\ "protocol" \in DOMAIN rec["ports"][i]
        /\ rec["ports"][i]["protocol"] = protocol}

\* the state of an entry, None when it has none
StateOf(entry) == IF "state_state" \in DOMAIN entry THEN Some(entry["state_state"]) ELSE None

\* the records of the view, in storage order, that a predicate selects
PortMatch(rec, port, protocol, state) ==
    /\ "ports" \in DOMAIN rec
    /\ \E i \in EntriesAt(rec, port, protocol) : StateOf(rec["ports"][i]) = Some(state)

PortMismatch(rec, port, protocol, state) ==
    /\ "ports" \in DOMAIN rec
    /\ \/ \E i \in EntriesAt(rec, port, protocol) :
              StateOf(rec["ports"][i]) \notin {None, Some(state)}
       \/ EntriesAt(rec, port, protocol) = {}

\* stored host records as a get returns them
Stored(recs) == [i \in 1..Len(recs) |-> FixHost(recs[i])]

\* the last call was searchport with a port number
NumericSearch(neg) ==
    call.op = "searchport" /\ call.port.kind = "number" /\ call.neg = neg

\* C18: searchport(port, protocol, state) with a numeric port selects exactly
\* the records whose ports array has one entry with that port number, that
\* protocol and that state.
C18_SearchPort ==
    NumericSearch(FALSE) =>
        result = Stored(SelectSeq(view, LAMBDA rec :
                     PortMatch(rec, call.port.n, call.protocol, call.state)))

\* the host of the scenario, [(tcp,80,open),(tcp,22,closed)]: selected by
\* searchport(80, tcp, open), and a search that selects nothing of a table
\* holding it, searchport(80, tcp, closed)
C18_Witness ==
    /\ NumericSearch(FALSE)
    /\ Len(view) = 1
    /\ "ports" \in DOMAIN view[1]
    /\ view[1]["ports"] = <<PortEntry("tcp", 80, "open"), PortEntry("tcp", 22, "closed")>>
    /\ call.port.n = 80 /\ call.protocol = "tcp" /\ call.state = "open"
    /\ result = Stored(view)

\* C19: among the records with a ports array, searchport(port, protocol,
\* state, neg=True) selects exactly those where an entry with that port and
\* protocol has another state or where no entry has that port and protocol;
\* a record with a single entry for the port and protocol is selected by the
\* negated search exactly when the positive search does not select it.
C19_SearchPortNeg ==
    NumericSearch(TRUE) =>
        /\ SelectSeq(result, LAMBDA rec : "ports" \in DOMAIN rec)
             = Stored(SelectSeq(view, LAMBDA rec :
                   PortMismatch(rec, call.port.n, call.protocol, call.state)))
        /\ \A i \in 1..Len(view) :
               ("ports" \in DOMAIN view[i]
                  /\ Cardinality(EntriesAt(view[i], call.port.n, call.protocol)) <= 1) =>
                   ((\E j \in 1..Len(result) : result[j] = FixHost(view[i]))
                      <=> ~Test(searchport(call.port, call.protocol, call.state, FALSE),
                                view[i]))

\* searchport(80, tcp, open, neg=True) on three kinds of host: tcp/80 open
\* (left out), tcp/80 closed (selected), nothing on tcp/80 (selected)
C19_Witness ==
    /\ NumericSearch(TRUE)
    /\ call.port.n = 80 /\ call.protocol = "tcp" /\ call.state = "open"
    /\ Len(view) = 2
    /\ "ports" \in DOMAIN view[1] /\ "ports" \in DOMAIN view[2]
    /\ view[1]["ports"] = <<PortEntry("tcp", 80, "open"), PortEntry("tcp", 22, "closed")>>
    /\ view[2]["ports"] = <<PortEntry("tcp", 80, "closed")>>
    /\ result = Stored(<<view[2]>>)

\* C20: searchportsother(ports, protocol, state) gives a filter that selects
\* exactly the records with a port entry of that protocol and state whose
\* port number is not among ports.
C20_SearchPortsOther ==
    call.op = "searchportsother" =>
        /\ call.raised = None
        /\ result = Stored(SelectSeq(view, LAMBDA rec :
               /\ "ports" \in DOMAIN rec
               /\ \E i \in 1..Len(rec["ports"]) :
                      /\ StateOf(rec["ports"][i]) = Some(call.state)
                      /\ rec["ports"][i]["protocol"] = call.protocol
                      /\ rec["ports"][i]["port"] \notin call.ports))

----------------------------------------------------------------------------
(* Properties of the generator of field values.                            *)

\* the record has something at the path: every segment is present, in at
\* least one element where the path goes through an array
RECURSIVE Has(_, _, _)
Has(rec, path, base) ==
    /\ path[1] \in DOMAIN rec
    /\ \/ Len(path) = 1
       \/ /\ Len(path) > 1
          /\ IF Append(base, path[1]) \in list_fields
             THEN \E i \in 1..Len(rec[path[1]]) :
                      Has(rec[path[1]][i], Tail(path), Append(base, path[1]))
             ELSE Has(rec[path[1]], Tail(path), Append(base, path[1]))

\* C16: on a record that lacks the path (a missing field or a missing
\* segment before it, in every element of the arrays on the way), the
\* generator yields nothing and raises nothing, and the existence filter
\* does not select the record.
C16_LackingPath ==
    /\ (call.op = "_generate_field_values" /\ ~Has(view[1], call.field, <<>>)) =>
           result = <<>> /\ call.raised = None
    /\ (call.op = "_search_field_exists" /\ ~Has(view[1], call.field, <<>>)) =>
           result = <<>> /\ call.raised = None

\* a weighted generator on a record whose two ports have no scripts: the
\* path ports.scripts.id crosses an array and ends nowhere
C16_Witness ==
    /\ call.op = "_generate_field_values"
    /\ call.field = <<"ports", "scripts", "id">>
    /\ call.countfield = Some(<<"count">>)
    /\ "ports" \in DOMAIN view[1]
    /\ Len(view[1]["ports"]) = 2
    /\ ~Has(view[1], call.field, <<>>)
    /\ result = <<>>

\* the count field as the element at hand has it: the value its path leads
\* to through dicts, 1 when a segment is missing or an array is in the way
RECURSIVE CountAt(_, _, _)
CountAt(rec, countfield, base) ==
    IF countfield[1] \notin DOMAIN rec THEN 1
    ELSE IF Len(countfield) = 1 THEN rec[countfield[1]]
    ELSE IF Append(base, countfield[1]) \in list_fields THEN 1
    ELSE CountAt(rec[countfield[1]], Tail(countfield), Append(base, countfield[1]))

\* the values of the path, each with the count field of the element that is
\* deepest on both paths
RECURSIVE Weighted(_, _, _, _)
Weighted(rec, field, countfield, base) ==
    IF Len(field) > 1 /\ Len(countfield) > 1 /\ field[1] = countfield[1]
    THEN IF field[1] \notin DOMAIN rec THEN <<>>
         ELSE IF Append(base, field[1]) \in list_fields
         THEN Flatten([i \in 1..Len(rec[field[1]]) |->
                  Weighted(rec[field[1]][i], Tail(field), Tail(countfield),
                           Append(base, field[1]))])
         ELSE Weighted(rec[field[1]], Tail(field), Tail(countfield),
                       Append(base, field[1]))
    ELSE LET vals == _generate_field_values(rec, field, base, None, None)
         IN  [i \in 1..Len(vals) |-> <<vals[i], CountAt(rec, countfield, base)>>]

\* C17: with a count field, every value comes with the value of the count
\* field on the same element, 1 when the element has none; a count field
\* inside the array the path iterates is read on the value's own element.
C17_WeightOfElement ==
    (call.op = "_generate_field_values" /\ call.countfield # None) =>
        result = Weighted(view[1], call.field, call.countfield[1], <<>>)

----------------------------------------------------------------------------
(* Properties of the projection.                                           *)

\* the record pruned to the subtrees of a set of paths: a field is kept
\* whole when its path is asked for, pruned when a longer path is
RECURSIVE Pruned(_, _, _)
Pruned(rec, paths, base) ==
    LET under(fld) == {p \in paths : /\ Len(p) > Len(base) + 1
                                      /\ SubSeq(p, 1, Len(base) + 1) = Append(base, fld)}
        kept == {fld \in DOMAIN rec : Append(base, fld) \in paths \/ under(fld) # {}}
    IN  [fld \in kept |->
            IF Append(base, fld) \in paths THEN rec[fld]
            ELSE IF Append(base, fld) \in list_fields
            THEN [i \in 1..Len(rec[fld]) |-> Pruned(rec[fld][i], paths, Append(base, fld))]
            ELSE Pruned(rec[fld], paths, Append(base, fld))]

\* the paths of a list of fields
PathSet(fields) == {fields[i] : i \in 1..Len(fields)}

\* the last call was a get with a projection, on the view or on the passive
\* table (neither filters nor sorts here: the n-th result is the n-th record)
Projecting == call.op \in {"get", "passive_get"} /\ call.fields # None

\* the n-th stored record as a get without projection returns it
Unprojected(n) ==
    IF call.op = "get" THEN FixHost(view[n])
    ELSE internal2rec(Document(passive[n], n))

\* C14: every record of a projecting get has the identity key of the record
\* it comes from (the stored _id of a host, the document id of a passive
\* record), asked for or not, and beside it only the requested subtrees.
C14_IdentityKept ==
    (Projecting /\ call.raised = None) =>
        \A n \in 1..Len(result) :
            /\ "_id" \in DOMAIN result[n]
            /\ result[n]["_id"] = Unprojected(n)["_id"]
            /\ Without(result[n], {"_id"})
                 = Pruned(Without(Unprojected(n), {"_id"}), PathSet(call.fields[1]), <<>>)

\* C15: a get whose fields hold a path and a prefix of it succeeds, returns
\* the whole subtree of the shorter path, and returns the same for either
\* order of the paths (what it returns depends on the set of paths only).
C15_OverlappingPaths ==
    (Projecting /\ call.op = "get") =>
        /\ call.raised = None
        /\ \A n \in 1..Len(view) :
               Without(result[n], {"_id"})
                 = Pruned(Without(FixHost(view[n]), {"_id"}), PathSet(call.fields[1]), <<>>)

----------------------------------------------------------------------------
(* Properties of the top values.                                           *)

\* the last call was a topvalues, active or passive
Ranking == call.op \in {"topvalues", "passive_topvalues"}

\* the values of the stream the extractor yielded
Yielded == {call.stream[i][1] : i \in 1..Len(call.stream)}

\* what a value counts in the stream, and where it is first yielded
RECURSIVE Total(_, _)
Total(stream, val) ==
    IF stream = <<>> THEN 0
    ELSE (IF stream[1][1] = val THEN stream[1][2] ELSE 0) + Total(Tail(stream), val)
FirstSeen(val) == MinOf({i \in 1..Len(call.stream) : call.stream[i][1] = val})

\* C12: topvalues with topnbr = K returns at most K entries, no value twice,
\* counts never increasing from one entry to the next; for the active
\* aggregator and for the passive one, distinct or weighted.
C12_TopBounded ==
    Ranking =>
        /\ Len(result) <= call.topnbr
        /\ \A i, j \in 1..Len(result) :
               /\ i # j => result[i]["_id"] # result[j]["_id"]
               /\ i < j => result[i]["count"] >= result[j]["count"]

\* a weighted passive ranking cut to one entry out of two values
C12_Witness ==
    /\ call.op = "passive_topvalues"
    /\ ~call.distinct
    /\ call.topnbr = 1
    /\ Cardinality(Yielded) = 2
    /\ Len(result) = 1
    /\ result[1]["count"] > 1

\* C13: of two values with the same count the one yielded first comes
\* first; a value cut off by topnbr counts less than every entry returned,
\* or as much and was first yielded later.
C13_TiesFirstSeen ==
    Ranking =>
        /\ \A i \in 1..Len(result) :
               /\ result[i]["_id"] \in Yielded
               /\ result[i]["count"] = Total(call.stream, result[i]["_id"])
        /\ \A i, j \in 1..Len(result) :
               (i < j /\ result[i]["count"] = result[j]["count"]) =>
                   FirstSeen(result[i]["_id"]) < FirstSeen(result[j]["_id"])
        /\ \A val \in Yielded \ {result[i]["_id"] : i \in 1..Len(result)} :
               \A i \in 1..Len(result) :
                   \/ Total(call.stream, val) < result[i]["count"]
                   \/ /\ Total(call.stream, val) = result[i]["count"]
                      /\ FirstSeen(result[i]["_id"]) < FirstSeen(val)

\* two categories counting the same, "b" yielded before "a": with topnbr 1
\* "b" is the entry returned
C13_Witness ==
    /\ call.op = "topvalues"
    /\ call.field = <<"category">>
    /\ call.topnbr = 1
    /\ Yielded = {"a", "b"}
    /\ Total(call.stream, "a") = Total(call.stream, "b")
    /\ call.stream[1][1] = "b"
    /\ result = <<[_id |-> "b", count |-> Total(call.stream, "b")]>>


----------------------------------------------------------------------------
(* Properties of the error cases.                                          *)

\* C27: invalidate_cache completes without error whether the handle was
\* never opened, is open, or has already been invalidated.
C27_InvalidateNeverFails ==
    call.op = "invalidate_cache" => call.raised = ""

\* C28: store_host inserts exactly one host record and returns the _id of
\* that record, generated when the host has none and the host's own
\* otherwise; it does not insert and then fail.
C28_StoreHostReturnsId ==
    [][call'.op = "store_host" =>
          LET before == IF call'.inst = "view" THEN view ELSE nmap
              after == IF call'.inst = "view" THEN view' ELSE nmap'
          IN  /\ Len(after) = Len(before) + 1
              /\ call'.raised = ""
              /\ call'.ret = Some(after[Len(after)]["_id"])
              /\ "_id" \in DOMAIN call'.host => call'.ret = Some(call'.host["_id"])
      ]_vars

\* C29: of the host records with a ports array, searchport("host") selects
\* those with a -1 entry and searchport("host", neg=True) selects exactly
\* the others.
C29_HostComplement ==
    (call.op = "searchport" /\ call.port.kind = "host") =>
        \A i \in 1..Len(view) :
            "ports" \in DOMAIN view[i] =>
                LET pseudo == \E j \in 1..Len(view[i]["ports"]) :
                                  view[i]["ports"][j]["port"] = -1
                    selected == \E j \in 1..Len(result) : result[j] = FixHost(view[i])
                IN  selected <=> (IF call.neg THEN ~pseudo ELSE pseudo)


----------------------------------------------------------------------------
(* Properties of the pagination.                                           *)

\* the match list of the last get: what the same get returns without
\* projection, skip and limit
MatchList == Values(get(view, call.flt, None, call.sort, None, None).ret)

\* a record of the match list as the last get's projection leaves it
Projected(rec) ==
    IF call.fields = None THEN rec ELSE Pruned(rec, PathSet(call.fields[1]), <<>>)

\* C30: get returns the records at positions skip .. skip+limit-1 of the
\* match list (in storage order without a sort), each projected after the
\* page has been cut; so pages of consecutive skips partition the matches.
C30_SortSkipLimit ==
    call.op = "get" =>
        LET first == IF call.skip = None THEN 0 ELSE call.skip[1]
            room == IF Len(MatchList) > first THEN Len(MatchList) - first ELSE 0
            size == IF call.limit = None THEN room ELSE Min2(call.limit[1], room)
        IN  /\ call.raised = None
            /\ call.sort = <<>> =>
                   MatchList = Stored(SelectSeq(view, LAMBDA rec : Test(call.flt, rec)))
            /\ result = [i \in 1..size |-> Projected(MatchList[first + i])]

\* the second page of one record of a sorted, projected get on two hosts:
\* the host stored first, which the sort puts last
C30_Witness ==
    /\ call.op = "get"
    /\ call.sort # <<>> /\ call.fields # None
    /\ call.skip = Some(1) /\ call.limit = Some(1)
    /\ Len(view) = 2 /\ Len(MatchList) = 2
    /\ Len(result) = 1 /\ result[1]["_id"] = 1


----------------------------------------------------------------------------
(* Properties of the order of the merges.                                  *)

\* the passive table after one more insert_or_update call c
Merged(table, c) ==
    LET count == DictGet(Without(rec2internal(c.spec), {"infos"}), "count", 1)
        spec2 == MatchKey(c.spec)
        current == get_one(table, spec2)
    IN  IF current # None
        THEN Update(table, count, Some(c.timestamp),
                    Some(PyOr(c.lastseen, c.timestamp)), {current[1]})
        ELSE Upsert(table, NewDoc(c.timestamp, spec2, c.spec, count, c.getinfos,
                                  c.lastseen), spec2)

\* the passive table after the calls made in the order given, from empty
RECURSIVE Replay(_, _)
Replay(calls, order) ==
    IF order = <<>> THEN <<>>
    ELSE Merged(Replay(calls, SubSeq(order, 1, Len(order) - 1)),
                calls[order[Len(order)]])

\* the records of a table: key, count, firstseen and lastseen of each
Records(table) == {Without(table[i], {"infos"}) : i \in 1..Len(table)}

\* the calls made so far are observations with a timestamp and no lastseen
PlainObservations ==
    \A i \in 1..Len(hist) :
        hist[i].op = "insert_or_update" /\ hist[i].spec # None /\ hist[i].lastseen = None

\* C26: the records stored after merging observations into an empty table
\* are the same for every order of the observations.
C26_OrderIndependent ==
    PlainObservations =>
        \A order \in {f \in [1..Len(hist) -> 1..Len(hist)] :
                         \A a, b \in 1..Len(hist) : f[a] = f[b] => a = b} :
            Records(Replay(hist, order)) = Records(passive)


\* C25: when two insert_or_update calls for one key have run side by side,
\* interleaved at search, update and upsert, the table holds one record
\* for the key, with the sum of the two counts, the earlier timestamp as
\* firstseen and the later one as lastseen.
C25_NoLostSighting ==
    (writers # <<>> /\ \A w \in DOMAIN writers : writers[w].pc = "done") =>
        /\ Len(passive) = 1
        /\ passive[1]["count"]
             = IncomingCount(writers[1].spec) + IncomingCount(writers[2].spec)
        /\ passive[1]["firstseen"] = Min2(writers[1].timestamp, writers[2].timestamp)
        /\ passive[1]["lastseen"] = Max2(writers[1].timestamp, writers[2].timestamp)


----------------------------------------------------------------------------
(* Properties of the passive top values.                                   *)

\* the stored events as a get returns them
Events == [n \in 1..Len(passive) |-> internal2rec(Document(passive[n], n))]

\* the events in which the field of the last topvalues call has a value:
\* those with the field, or for "net" those with an address
Occurring ==
    {n \in 1..Len(passive) :
        IF NetBits(call.field) = None THEN call.field[1] \in DOMAIN Events[n]
        ELSE "addr" \in DOMAIN Events[n]}

\* the value an event contributes: its field, or the network of its address
Contributed(n) ==
    IF NetBits(call.field) = None THEN Events[n][call.field[1]]
    ELSE MaskedText(Events[n]["addr"], NetBits(call.field)[1])
             \o "/" \o ToString(NetBits(call.field)[1])

\* what the events up to the n-th count for a value: one each when
\* distinct, their stored count (1 without one) otherwise
RECURSIVE CountedUpTo(_, _)
CountedUpTo(n, val) ==
    IF n = 0 THEN 0
    ELSE CountedUpTo(n - 1, val)
           + (IF n \in Occurring /\ Contributed(n) = val
              THEN (IF call.distinct THEN 1 ELSE DictGet(passive[n], "count", 1))
              ELSE 0)

\* C23: the passive topvalues of a plain field or of net[:bits] completes
\* and reports for each value the number of events it occurs in (distinct)
\* or the sum of their stored counts, 1 for an event without one (weighted);
\* below topnbr values, every value that occurs is reported.
C23_DistinctOrWeighted ==
    call.op = "passive_topvalues" =>
        /\ call.raised = None
        /\ \A i \in 1..Len(result) :
               result[i]["count"] = CountedUpTo(Len(passive), result[i]["_id"])
        /\ Len(result) < call.topnbr =>
               \A n \in Occurring : \E i \in 1..Len(result) : result[i]["_id"] = Contributed(n)


----------------------------------------------------------------------------
(* Properties of the stored addresses.                                     *)

\* an integer in [0, 2^128): sixteen base-256 digits
Is128Bit(addr) ==
    /\ addr.type = "int"
    /\ Len(addr.digits) = 16
    /\ \A k \in 1..16 : addr.digits[k] \in 0..255

\* C21: whatever store_host, insert and insert_or_update calls were made,
\* the addr of every stored record that has one is an integer in
\* [0, 2^128); an address that cannot be decoded is not stored as text.
C21_AddrInternal ==
    /\ \A i \in 1..Len(nmap) : "addr" \in DOMAIN nmap[i] => Is128Bit(nmap[i]["addr"])
    /\ \A i \in 1..Len(passive) :
           "addr" \in DOMAIN passive[i] => Is128Bit(passive[i]["addr"])


----------------------------------------------------------------------------
(* Properties of the CPE top values.                                       *)

\* the CPE entries of the view, as <<record, position>>, that satisfy every
\* filter of the spec of the last call
Satisfying ==
    {e \in UNION {{<<n, j>> : j \in 1..Len(view[n]["cpes"])}
                     : n \in {m \in 1..Len(view) : "cpes" \in DOMAIN view[m]}} :
        \A k \in 1..Len(call.field.spec) :
            view[e[1]]["cpes"][e[2]][CpeFields[k]] = call.field.spec[k]}

\* the key of such an entry: its parts up to the requested one
CpeKey(e) ==
    LET upto == CHOOSE k \in 1..4 : CpeFields[k] = CpePart(call.field.part)
    IN  [k \in 1..upto |-> view[e[1]]["cpes"][e[2]][CpeFields[k]]]

\* C22: the top values of cpe[.part]:spec count, for each key, the CPE
\* entries that satisfy every filter of the spec and have that key (their
\* parts up to the requested one); an entry that fails a filter counts
\* for nothing, whatever record it is in.
C22_CpeFiltered ==
    call.op = "topvalues" =>
        /\ \A i \in 1..Len(result) :
               result[i]["count"]
                 = Cardinality({e \in Satisfying : CpeKey(e) = result[i]["_id"]})
        /\ Len(result) < call.topnbr =>
               \A e \in Satisfying : \E i \in 1..Len(result) : result[i]["_id"] = CpeKey(e)


----------------------------------------------------------------------------
(* Properties of the predicate builders.                                   *)

\* a call of a builder with malformed arguments
Malformed(c) ==
    \/ c.op = "searchcmp" /\ c.args.cmpop \notin {"<", "<=", ">", ">="}
    \/ c.op = "passive_searchport"
         /\ (c.args.protocol # "tcp" \/ c.args.state # "open")
    \/ c.op \in {"searchservice", "searchproduct"}
         /\ c.args.protocol \notin {None, Some("tcp")}
    \/ c.op = "searchscript" /\ c.args.values # None /\ c.args.name = None

\* C24: a builder called with malformed arguments raises an error and
\* returns no predicate, and the call opens no handle and changes no table.
C24_MalformedFails ==
    [][Malformed(call') =>
          /\ call'.raised # None
          /\ call'.ret = None
          /\ UNCHANGED <<passive, passive_ids, view, nmap, nmap_scans, _db, _db_scans,
                         handles>>
      ]_vars

\* searchscript with values and no name has raised TypeError, the tables
\* holding records and no handle being open
C24_Witness ==
    /\ call.op = "searchscript"
    /\ call.args.values # None /\ call.args.name = None
    /\ call.raised = Some("TypeError")
    /\ Len(passive) = 1 /\ Len(view) = 1
    /\ handles = <<>>

============================================================================
